---------------------------- MODULE Spec2Model ----------------------------
(***************************************************************************)
(* Dialogue request queue of TheGame (src/src/dialogue/queue.rs) and the   *)
(* caller protocol of run_dialogue_queue (src/src/dialogue/systems.rs).    *)
(*                                                                         *)
(* Time is counted in whole seconds.  The f32 cooldowns of the code are    *)
(* integers here and f32::EPSILON, the readiness threshold, is 0: a        *)
(* cooldown is ready exactly when nothing of it remains.  Durations        *)
(* (retry_after, the scaled clock delta) are non-negative by their type.   *)
(***************************************************************************)
EXTENDS Integers, Sequences, FiniteSets, TLC

(* ------------------------------ bounds --------------------------------- *)
MaxEnqueue == 2
MaxDelta == 2
MaxRetryAfter == 2
MaxLimit == 2
MaxUncounted == 1
MaxPushes == 4
MaxCapacity == 2
MaxEventsPerFrame == 2
MaxSubmitted == 1
MaxProcessCalls == 3
MaxRewind == 1
MaxCooldown == 3
MaxOrdered == 4
MaxEconomyRequests == 2

(* --------------------------- input domains ----------------------------- *)
NoNpc == 0
NpcIds == {1, 2}
Speakers == NpcIds \cup {NoNpc}
Providers == {"Local"}
Prompts == {"hello"}
Deltas == 0..MaxDelta
SignedDeltas == (0 - MaxRewind)..MaxDelta
RetryAfters == 0..MaxRetryAfter
Limits == 0..MaxLimit
GlobalCooldownChoices == {0, 1}
PerNpcCooldownChoices == {0, 2}
MaxRetriesChoices == {1}
RetryableErrors == {"Timeout", "Transport"}
DroppingErrors == {"UnsupportedProvider", "Cancelled"}
MaxDispatchesChoices == {1, 2}
CapacityChoices == 0..MaxCapacity
EventCounts == 0..MaxEventsPerFrame

(* ------------------------- program constants --------------------------- *)
InitialNextId == 1
TimeoutRetryDelay == 1
TransportRetryDelay == 2
MaxDispatchPerFrame == 16
ManualRetryBackoffSeconds == 3
DefaultRateLimitBackoff == 10

VARIABLES pending, delayed, npc_cooldowns, global_cooldown, config, metrics,
          next_id, dispatched, issued, accepted, dropCount, exhausted,
          dispatchCount, uncounted, deferredIds, sinceGlobal, sinceNpc,
          retryClock

(* The broker (src/src/dialogue/broker/openai.rs) and what is known of the   *)
(* requests handed to it.                                                   *)
VARIABLES mode, constructedMode, request_meta, processLog, sinceBackoff,
          waitedAtDispatch, assembled, exchange

(* The telemetry buffer and log (src/src/dialogue/telemetry.rs). *)
VARIABLES telemetry, log_pending, log_file, pushed, requested_capacity,
          emitted, handed

brokerVars == <<mode, constructedMode, request_meta, processLog, sinceBackoff,
                waitedAtDispatch, assembled, exchange>>

telemetryVars == <<telemetry, log_pending, log_file, pushed,
                   requested_capacity, emitted, handed>>

queueVars == <<pending, delayed, npc_cooldowns, global_cooldown, config,
               metrics, next_id, dispatched, issued, accepted, dropCount,
               exhausted, dispatchCount, uncounted, deferredIds, sinceGlobal,
               sinceNpc, retryClock>>

vars == <<pending, delayed, npc_cooldowns, global_cooldown, config, metrics,
          next_id, dispatched, issued, accepted, dropCount, exhausted,
          dispatchCount, uncounted, deferredIds, sinceGlobal, sinceNpc,
          retryClock, brokerVars, telemetryVars>>

Max(a, b) == IF a >= b THEN a ELSE b
Min(a, b) == IF a <= b THEN a ELSE b

(* DialogueRequest::new: a request starts with retries = 0. *)
NewRequest(id, provider, npc, prompt) ==
    [id |-> id, provider |-> provider, npc_id |-> npc, prompt |-> prompt,
     retries |-> 0]

NoRequest == [id |-> -1, provider |-> "none", npc_id |-> NoNpc,
              prompt |-> "", retries |-> 0]

DefaultMetrics ==
    [enqueued |-> 0, accepted |-> 0, deferred |-> 0, retries_scheduled |-> 0,
     throttled |-> 0, timed_out |-> 0, transport_errors |-> 0, dropped |-> 0]

(* ---------------------------- CooldownTracker -------------------------- *)
CooldownReady == 0

(* Mutant: the floor at zero is missing. *)
CooldownTick_NoFloor(remaining, delta_seconds) == remaining - delta_seconds

(* Mutant: the tracker does not count down. *)
CooldownTick_Stuck(remaining, delta_seconds) == remaining

CooldownTick(remaining, delta_seconds) == Max(remaining - delta_seconds, 0)

(* Mutant: every tracker reports ready. *)
IsReady_Always(remaining) == TRUE

IsReady(remaining) == remaining <= 0

(* Mutant: triggering leaves the tracker ready. *)
Trigger_LeavesReady(cooldown) == 0

Trigger(cooldown) == Max(cooldown, 0)

(* Mutant: the entry is created with nothing left to wait. *)
NewRetryEntry_NoDelay(request, delay) == [request |-> request, remaining |-> 0]

(* RetryEntry::new *)
NewRetryEntry(request, delay) ==
    [request |-> request, remaining |-> Max(delay, 0)]

(* ------------------------- DialogueRequestQueue ------------------------ *)
(* Mutant: the counter is not advanced. *)
NextIdAfter_Stuck(id) == id

(* self.next_id += 1 (a u64: no wrap-around within any reachable run). *)
NextIdAfter(id) == id + 1

(* Mutant: the speaker's cooldown is not consulted. *)
CanDispatch_Always(cooldowns, request) == TRUE

CanDispatch(cooldowns, request) ==
    IF request.npc_id # NoNpc
    THEN IF request.npc_id \in DOMAIN cooldowns
         THEN IsReady(cooldowns[request.npc_id])
         ELSE TRUE
    ELSE TRUE

(* Mutant: a request that cannot be dispatched is not pushed back. *)
RECURSIVE ScanPending_LosesBlocked(_, _, _)
ScanPending_LosesBlocked(p, cooldowns, n) ==
    IF n = 0 \/ p = <<>>
    THEN [pending |-> p, dispatched |-> NoRequest]
    ELSE LET request == Head(p)
         IN IF CanDispatch(cooldowns, request)
            THEN [pending |-> Tail(p), dispatched |-> request]
            ELSE ScanPending_LosesBlocked(Tail(p), cooldowns, n - 1)

(* The inner loop of take_ready_limit: at most n times pop the front; the   *)
(* first request that can be dispatched is taken, the others go to the back. *)
RECURSIVE ScanPending(_, _, _)
ScanPending(p, cooldowns, n) ==
    IF n = 0 \/ p = <<>>
    THEN [pending |-> p, dispatched |-> NoRequest]
    ELSE LET request == Head(p)
         IN IF CanDispatch(cooldowns, request)
            THEN [pending |-> Tail(p), dispatched |-> request]
            ELSE ScanPending(Append(Tail(p), request), cooldowns, n - 1)

(* The outer loop of take_ready_limit on q = [pending, npc_cooldowns,        *)
(* global_cooldown, ready], for the remaining number of iterations.         *)
RECURSIVE TakeLoop(_, _, _)
TakeLoop(q, cfg, limit) ==
    IF limit = 0 \/ ~IsReady(q.global_cooldown) \/ Len(q.pending) = 0
    THEN q
    ELSE LET s == ScanPending(q.pending, q.npc_cooldowns, Len(q.pending))
         IN IF s.dispatched = NoRequest
            THEN [q EXCEPT !.pending = s.pending]
            ELSE LET npc == s.dispatched.npc_id
                     cds == IF npc # NoNpc
                            THEN [n \in DOMAIN q.npc_cooldowns \cup {npc} |->
                                     IF n = npc
                                     THEN Trigger(cfg.per_npc_cooldown_secs)
                                     ELSE q.npc_cooldowns[n]]
                            ELSE q.npc_cooldowns
                 IN TakeLoop([pending |-> s.pending,
                              npc_cooldowns |-> cds,
                              global_cooldown |-> Trigger(cfg.global_cooldown_secs),
                              ready |-> Append(q.ready, s.dispatched)],
                             cfg, limit - 1)

TakeReadyLimitResult(limit) ==
    TakeLoop([pending |-> pending, npc_cooldowns |-> npc_cooldowns,
              global_cooldown |-> global_cooldown, ready |-> <<>>],
             config, limit)

(* Mutant: only the entry at the head of the delayed list is ticked. *)
TickDelayed_HeadOnly(entries, delta_seconds, p, still_delayed) ==
    IF entries = <<>>
    THEN [pending |-> p, delayed |-> still_delayed]
    ELSE LET entry == Head(entries)
             remaining == Max(entry.remaining - delta_seconds, 0)
         IN IF remaining <= 0
            THEN [pending |-> Append(p, entry.request),
                  delayed |-> still_delayed \o Tail(entries)]
            ELSE [pending |-> p,
                  delayed |-> Append(still_delayed,
                                     [entry EXCEPT !.remaining = remaining])
                              \o Tail(entries)]

(* Mutant: an entry whose cooldown ran out is removed from the delayed list *)
(* without being put back in pending.                                       *)
TickDelayed_LosesRipe(entries, delta_seconds, p, still_delayed) ==
    LET kept == SelectSeq(entries,
                          LAMBDA entry : entry.remaining - delta_seconds > 0)
    IN [pending |-> p,
        delayed |-> still_delayed
                    \o [i \in 1..Len(kept) |->
                           [kept[i] EXCEPT !.remaining = @ - delta_seconds]]]

(* tick on the delayed list: entries whose cooldown ran out move, in order, *)
(* to the back of pending; the others stay delayed.                         *)
RECURSIVE TickDelayed(_, _, _, _)
TickDelayed(entries, delta_seconds, p, still_delayed) ==
    IF entries = <<>>
    THEN [pending |-> p, delayed |-> still_delayed]
    ELSE LET entry == Head(entries)
             remaining == Max(entry.remaining - delta_seconds, 0)
         IN IF remaining <= 0
            THEN TickDelayed(Tail(entries), delta_seconds,
                             Append(p, entry.request), still_delayed)
            ELSE TickDelayed(Tail(entries), delta_seconds, p,
                             Append(still_delayed,
                                    [entry EXCEPT !.remaining = remaining]))

(* Mutant: the early return after counting the drop is missing, so the       *)
(* exhausted request is re-enqueued as well.                                 *)
ScheduleRetry_MissingReturn(q, cfg, request, delay, increment_retry) ==
    LET exhaustedNow == increment_retry /\ request.retries >= cfg.max_retries
        counted == IF exhaustedNow
                   THEN [q EXCEPT !.metrics.dropped = @ + 1, !.dropped_now = TRUE]
                   ELSE q
        r == IF increment_retry
             THEN [request EXCEPT !.retries = Min(@ + 1, 255)]
             ELSE request
        scheduled == [counted EXCEPT !.metrics.retries_scheduled = @ + 1]
    IN IF delay = 0
       THEN [scheduled EXCEPT !.pending = Append(@, r)]
       ELSE [scheduled EXCEPT !.delayed = Append(@, [request |-> r,
                                                     remaining |-> Max(delay, 0)])]

(* Mutant: a retry that is not counted re-enqueues the request with its      *)
(* retries counter reset.                                                    *)
ScheduleRetry_ResetsRetries(q, cfg, request, delay, increment_retry) ==
    IF increment_retry /\ request.retries >= cfg.max_retries
    THEN [q EXCEPT !.metrics.dropped = @ + 1, !.dropped_now = TRUE]
    ELSE LET r == IF increment_retry
                  THEN [request EXCEPT !.retries = Min(@ + 1, 255)]
                  ELSE [request EXCEPT !.retries = 0]
             scheduled == [q EXCEPT !.metrics.retries_scheduled = @ + 1]
         IN IF delay = 0
            THEN [scheduled EXCEPT !.pending = Append(@, r)]
            ELSE [scheduled EXCEPT !.delayed = Append(@, [request |-> r,
                                                          remaining |-> Max(delay, 0)])]

(* Mutant: the request is re-enqueued without its speaker. *)
ScheduleRetry_ForgetsSpeaker(q, cfg, request, delay, increment_retry) ==
    IF increment_retry /\ request.retries >= cfg.max_retries
    THEN [q EXCEPT !.metrics.dropped = @ + 1, !.dropped_now = TRUE]
    ELSE LET r == IF increment_retry
                  THEN [request EXCEPT !.retries = Min(@ + 1, 255),
                                       !.npc_id = NoNpc]
                  ELSE [request EXCEPT !.npc_id = NoNpc]
             scheduled == [q EXCEPT !.metrics.retries_scheduled = @ + 1]
         IN IF delay = 0
            THEN [scheduled EXCEPT !.pending = Append(@, r)]
            ELSE [scheduled EXCEPT !.delayed = Append(@, [request |-> r,
                                                          remaining |-> Max(delay, 0)])]

(* schedule_retry on q = [pending, delayed, metrics, dropped_now]. *)
ScheduleRetry(q, cfg, request, delay, increment_retry) ==
    IF increment_retry /\ request.retries >= cfg.max_retries
    THEN [q EXCEPT !.metrics.dropped = @ + 1, !.dropped_now = TRUE]
    ELSE LET r == IF increment_retry
                  THEN [request EXCEPT !.retries = Min(@ + 1, 255)]
                  ELSE request
             scheduled == [q EXCEPT !.metrics.retries_scheduled = @ + 1]
         IN IF delay = 0
            THEN [scheduled EXCEPT !.pending = Append(@, r)]
            ELSE [scheduled EXCEPT !.delayed = Append(@, NewRetryEntry(r, delay))]

RetryOrDrop(q, cfg, request, delay) == ScheduleRetry(q, cfg, request, delay, TRUE)

QueueView == [pending |-> pending, delayed |-> delayed, metrics |-> metrics,
              dropped_now |-> FALSE]

(* ------------------------------ ghost helpers -------------------------- *)
Bump(f, id) ==
    IF id \in DOMAIN f THEN [f EXCEPT ![id] = @ + 1] ELSE f @@ (id :> 1)

CountOf(f, id) == IF id \in DOMAIN f THEN f[id] ELSE 0

Range(s) == {s[i] : i \in 1..Len(s)}

RECURSIVE BumpAll(_, _)
BumpAll(f, s) == IF s = <<>> THEN f ELSE BumpAll(Bump(f, Head(s).id), Tail(s))

(* Tick time elapsed since a cooldown was last triggered, counted up to the   *)
(* configured cooldown constant; a tracker that was never triggered counts   *)
(* as fully elapsed.                                                         *)
Elapse(acc, delta, cooldown) == Max(0, Min(acc + delta, Trigger(cooldown)))

(* Whether recording `outcome` for `request` puts the request back in the   *)
(* queue, and with which delay.                                              *)
RetryDelayOf(cfg, request, outcome) ==
    CASE outcome.kind \in {"Deferred", "Throttled"} ->
            [scheduled |-> TRUE, delay |-> outcome.retry_after]
      [] outcome.kind = "Timeout" ->
            [scheduled |-> request.retries < cfg.max_retries, delay |-> 1]
      [] outcome.kind = "Transport" ->
            [scheduled |-> request.retries < cfg.max_retries, delay |-> 2]
      [] OTHER -> [scheduled |-> FALSE, delay |-> 0]

(* The requests one run re-enqueues with a positive delay, each with its    *)
(* delay.                                                                    *)
RECURSIVE ScheduledIn(_, _, _)
ScheduledIn(cfg, ready, outcomes) ==
    IF ready = <<>>
    THEN <<>>
    ELSE LET d == RetryDelayOf(cfg, Head(ready), Head(outcomes))
             rest == ScheduledIn(cfg, Tail(ready), Tail(outcomes))
         IN IF d.scheduled /\ d.delay > 0
            THEN (Head(ready).id :> d.delay) @@ rest
            ELSE rest

(* The retry clock: for every request that was re-enqueued with a positive  *)
(* delay of which some has not elapsed yet, that delay and the tick time    *)
(* accumulated since the re-enqueue.  `taken` are the ids the step           *)
(* dispatches, `scheduled` the requests it re-enqueues.                      *)
RetryClockStep(clock, delta_seconds, taken, scheduled) ==
    [id \in {x \in (DOMAIN clock) \ taken :
                 clock[x].since + delta_seconds < clock[x].delay}
             \cup DOMAIN scheduled |->
        IF id \in DOMAIN scheduled
        THEN [delay |-> scheduled[id], since |-> 0]
        ELSE [clock[id] EXCEPT !.since = Max(0, @ + delta_seconds)]]

(* ------------------- the parts a specification leaves out -------------- *)
(* Nothing has been assembled for a request yet. *)
NoAssembly == [mode |-> "None", request |-> <<>>, lines |-> <<>>]
(* No HTTP exchange with the provider has taken place yet. *)
NoExchange == [response |-> <<>>, result |-> <<>>]

(* No broker attached: nothing is processed. *)
BrokerIdle ==
    /\ mode = "Fallback"
    /\ constructedMode = "Fallback"
    /\ request_meta = <<>>
    /\ processLog = <<>>
    /\ sinceBackoff = <<>>
    /\ waitedAtDispatch = <<>>
    /\ assembled = NoAssembly
    /\ exchange = NoExchange

(* No telemetry recorded. *)
TelemetryIdle ==
    /\ telemetry = [capacity |-> 1, records |-> <<>>]
    /\ log_pending = <<>>
    /\ log_file = <<>>
    /\ pushed = <<>>
    /\ requested_capacity = 1
    /\ emitted = <<>>
    /\ handed = {}

(* An empty queue that nothing is submitted to. *)
QueueIdle ==
    /\ pending = <<>>
    /\ delayed = <<>>
    /\ npc_cooldowns = <<>>
    /\ global_cooldown = CooldownReady
    /\ config = [global_cooldown_secs |-> 1, per_npc_cooldown_secs |-> 2,
                 max_retries |-> 1]
    /\ metrics = DefaultMetrics
    /\ next_id = InitialNextId
    /\ dispatched = {}
    /\ issued = <<>>
    /\ accepted = {}
    /\ dropCount = <<>>
    /\ exhausted = {}
    /\ dispatchCount = <<>>
    /\ uncounted = <<>>
    /\ deferredIds = {}
    /\ sinceGlobal = Trigger(config.global_cooldown_secs)
    /\ sinceNpc = [n \in NpcIds |-> Trigger(config.per_npc_cooldown_secs)]
    /\ retryClock = <<>>

(* -------------------------------- Init --------------------------------- *)
Init ==
    /\ pending = <<>>
    /\ delayed = <<>>
    /\ npc_cooldowns = <<>>
    /\ global_cooldown = CooldownReady
    /\ config \in [global_cooldown_secs : GlobalCooldownChoices,
                   per_npc_cooldown_secs : PerNpcCooldownChoices,
                   max_retries : MaxRetriesChoices]
    /\ metrics = DefaultMetrics
    /\ next_id = InitialNextId
    /\ dispatched = {}
    /\ issued = <<>>
    /\ accepted = {}
    /\ dropCount = <<>>
    /\ exhausted = {}
    /\ dispatchCount = <<>>
    /\ uncounted = <<>>
    /\ deferredIds = {}
    /\ sinceGlobal = Trigger(config.global_cooldown_secs)
    /\ sinceNpc = [n \in NpcIds |-> Trigger(config.per_npc_cooldown_secs)]
    /\ retryClock = <<>>
    /\ BrokerIdle
    /\ TelemetryIdle

(* ------------------------------- actions ------------------------------- *)
(* enqueue: the request gets the next id and goes to the back of pending. *)
EnqueueRequest(provider, npc, prompt) ==
    /\ LET id == next_id
       IN /\ next_id' = NextIdAfter(next_id)
          /\ pending' = Append(pending, NewRequest(id, provider, npc, prompt))
          /\ metrics' = [metrics EXCEPT !.enqueued = @ + 1]
          /\ issued' = Append(issued, id)
    /\ UNCHANGED <<brokerVars, telemetryVars, delayed, npc_cooldowns, global_cooldown, config, dispatched,
                   accepted, dropCount, exhausted, dispatchCount, uncounted,
                   deferredIds, sinceGlobal, sinceNpc, retryClock>>

Enqueue(provider, npc, prompt) ==
    /\ Len(issued) < MaxEnqueue
    /\ EnqueueRequest(provider, npc, prompt)

TakeReadyLimit(limit) ==
    LET q == TakeReadyLimitResult(limit)
        taken == Range(q.ready)
    IN /\ pending' = q.pending
       /\ npc_cooldowns' = q.npc_cooldowns
       /\ global_cooldown' = q.global_cooldown
       /\ dispatched' = dispatched \cup taken
       /\ dispatchCount' = BumpAll(dispatchCount, q.ready)
       /\ sinceGlobal' = IF q.ready # <<>> THEN 0 ELSE sinceGlobal
       /\ sinceNpc' = [n \in NpcIds |->
                          IF \E r \in taken : r.npc_id = n THEN 0 ELSE sinceNpc[n]]
       /\ retryClock' = RetryClockStep(retryClock, 0, {r.id : r \in taken}, <<>>)
       /\ UNCHANGED <<brokerVars, telemetryVars, delayed, config, metrics, next_id, issued, accepted,
                      dropCount, exhausted, uncounted, deferredIds>>

Tick(delta_seconds) ==
    LET t == TickDelayed(delayed, delta_seconds, pending, <<>>)
    IN /\ global_cooldown' = CooldownTick(global_cooldown, delta_seconds)
       /\ npc_cooldowns' = [n \in DOMAIN npc_cooldowns |->
                               CooldownTick(npc_cooldowns[n], delta_seconds)]
       /\ pending' = t.pending
       /\ delayed' = t.delayed
       /\ sinceGlobal' = Elapse(sinceGlobal, delta_seconds, config.global_cooldown_secs)
       /\ sinceNpc' = [n \in NpcIds |-> Elapse(sinceNpc[n], delta_seconds,
                                              config.per_npc_cooldown_secs)]
       /\ retryClock' = RetryClockStep(retryClock, delta_seconds, {}, <<>>)
       /\ UNCHANGED <<brokerVars, telemetryVars, config, metrics, next_id, dispatched, issued, accepted,
                      dropCount, exhausted, dispatchCount, uncounted, deferredIds>>

RecordAccept(request) ==
    /\ request \in dispatched
    /\ dispatched' = dispatched \ {request}
    /\ metrics' = [metrics EXCEPT !.accepted = @ + 1]
    /\ accepted' = accepted \cup {request.id}
    /\ UNCHANGED <<brokerVars, telemetryVars, pending, delayed, npc_cooldowns, global_cooldown, config,
                   next_id, issued, dropCount, exhausted, dispatchCount,
                   uncounted, deferredIds, sinceGlobal, sinceNpc, retryClock>>

RecordDeferred(request, retry_after) ==
    /\ request \in dispatched
    /\ CountOf(uncounted, request.id) < MaxUncounted
    /\ LET q == ScheduleRetry([QueueView EXCEPT !.metrics.deferred = @ + 1],
                              config, request, retry_after, FALSE)
       IN /\ pending' = q.pending
          /\ delayed' = q.delayed
          /\ metrics' = q.metrics
    /\ dispatched' = dispatched \ {request}
    /\ uncounted' = Bump(uncounted, request.id)
    /\ deferredIds' = deferredIds \cup {request.id}
    /\ retryClock' = RetryClockStep(retryClock, 0, {},
                                    ScheduledIn(config, <<request>>,
                                                <<[kind |-> "Deferred",
                                                   retry_after |-> retry_after]>>))
    /\ UNCHANGED <<brokerVars, telemetryVars, npc_cooldowns, global_cooldown, config, next_id, issued,
                   accepted, dropCount, exhausted, dispatchCount, sinceGlobal,
                   sinceNpc>>

RecordErrorThrottled(request, retry_after) ==
    /\ request \in dispatched
    /\ CountOf(uncounted, request.id) < MaxUncounted
    /\ LET q == ScheduleRetry([QueueView EXCEPT !.metrics.throttled = @ + 1],
                              config, request, retry_after, FALSE)
       IN /\ pending' = q.pending
          /\ delayed' = q.delayed
          /\ metrics' = q.metrics
    /\ dispatched' = dispatched \ {request}
    /\ uncounted' = Bump(uncounted, request.id)
    /\ retryClock' = RetryClockStep(retryClock, 0, {},
                                    ScheduledIn(config, <<request>>,
                                                <<[kind |-> "Throttled",
                                                   retry_after |-> retry_after]>>))
    /\ UNCHANGED <<brokerVars, telemetryVars, npc_cooldowns, global_cooldown, config, next_id, issued,
                   accepted, dropCount, exhausted, dispatchCount, deferredIds,
                   sinceGlobal, sinceNpc>>

RecordErrorRetryable(request, kind) ==
    /\ request \in dispatched
    /\ kind \in RetryableErrors
    /\ LET counted == IF kind = "Timeout"
                      THEN [QueueView EXCEPT !.metrics.timed_out = @ + 1]
                      ELSE [QueueView EXCEPT !.metrics.transport_errors = @ + 1]
           delay == IF kind = "Timeout" THEN TimeoutRetryDelay
                                        ELSE TransportRetryDelay
           q == RetryOrDrop(counted, config, request, delay)
       IN /\ pending' = q.pending
          /\ delayed' = q.delayed
          /\ metrics' = q.metrics
          /\ dropCount' = IF q.dropped_now THEN Bump(dropCount, request.id)
                                           ELSE dropCount
          /\ exhausted' = IF q.dropped_now THEN exhausted \cup {request.id}
                                           ELSE exhausted
    /\ dispatched' = dispatched \ {request}
    /\ retryClock' = RetryClockStep(retryClock, 0, {},
                                    ScheduledIn(config, <<request>>,
                                                <<[kind |-> kind, retry_after |-> 0]>>))
    /\ UNCHANGED <<brokerVars, telemetryVars, npc_cooldowns, global_cooldown, config, next_id, issued,
                   accepted, dispatchCount, uncounted, deferredIds, sinceGlobal,
                   sinceNpc>>

RecordErrorDropped(request, kind) ==
    /\ request \in dispatched
    /\ kind \in DroppingErrors
    /\ metrics' = [metrics EXCEPT !.dropped = @ + 1]
    /\ dropCount' = Bump(dropCount, request.id)
    /\ dispatched' = dispatched \ {request}
    /\ UNCHANGED <<brokerVars, telemetryVars, pending, delayed, npc_cooldowns, global_cooldown, config,
                   next_id, issued, accepted, exhausted, dispatchCount,
                   uncounted, deferredIds, sinceGlobal, sinceNpc, retryClock>>

Next ==
    \/ \E provider \in Providers, npc \in Speakers, prompt \in Prompts :
          Enqueue(provider, npc, prompt)
    \/ \E limit \in Limits : TakeReadyLimit(limit)
    \/ \E delta_seconds \in Deltas : Tick(delta_seconds)
    \/ \E request \in dispatched : RecordAccept(request)
    \/ \E request \in dispatched, retry_after \in RetryAfters :
          RecordDeferred(request, retry_after)
    \/ \E request \in dispatched, retry_after \in RetryAfters :
          RecordErrorThrottled(request, retry_after)
    \/ \E request \in dispatched, kind \in RetryableErrors :
          RecordErrorRetryable(request, kind)
    \/ \E request \in dispatched, kind \in DroppingErrors :
          RecordErrorDropped(request, kind)

Spec == Init /\ [][Next]_vars

(* ----------------------- tick with any f32 delta ----------------------- *)
(* tick takes an f32: nothing in its signature keeps the delta from being   *)
(* negative.  The cooldowns a run may reach are capped at MaxCooldown.      *)
WithinCooldownCap(delta_seconds) ==
    /\ global_cooldown - delta_seconds <= MaxCooldown
    /\ \A n \in DOMAIN npc_cooldowns :
          npc_cooldowns[n] - delta_seconds <= MaxCooldown
    /\ \A i \in 1..Len(delayed) :
          delayed[i].remaining - delta_seconds <= MaxCooldown

SignedNext ==
    \/ \E provider \in Providers, npc \in Speakers, prompt \in Prompts :
          Enqueue(provider, npc, prompt)
    \/ \E limit \in Limits : TakeReadyLimit(limit)
    \/ \E delta_seconds \in SignedDeltas :
          WithinCooldownCap(delta_seconds) /\ Tick(delta_seconds)
    \/ \E request \in dispatched : RecordAccept(request)
    \/ \E request \in dispatched, kind \in RetryableErrors :
          RecordErrorRetryable(request, kind)

SignedSpec == Init /\ [][SignedNext]_vars

(* ------------------- several requests of one speaker ------------------ *)
(* More requests than Spec admits, with the cooldowns fixed, a speaker and  *)
(* a request without speaker, and every dispatch accepted.                  *)
OrderedSpeakers == {1, NoNpc}

OrderInit ==
    /\ QueueIdle
    /\ BrokerIdle
    /\ TelemetryIdle

OrderNext ==
    \/ \E provider \in Providers, npc \in OrderedSpeakers, prompt \in Prompts :
          Len(issued) < MaxOrdered /\ EnqueueRequest(provider, npc, prompt)
    \/ \E limit \in Limits : TakeReadyLimit(limit)
    \/ \E delta_seconds \in Deltas : Tick(delta_seconds)
    \/ \E request \in dispatched : RecordAccept(request)

OrderSpec == OrderInit /\ [][OrderNext]_vars

(* ------------------------- run_dialogue_queue -------------------------- *)
(* What registry.dispatch can return for one request: a submission that is  *)
(* accepted or deferred, or one of the DialogueError variants.              *)
SubmissionOutcomes ==
    {[kind |-> "Accepted", retry_after |-> 0]}
    \cup {[kind |-> k, retry_after |-> ra] :
             k \in {"Deferred", "Throttled"}, ra \in RetryAfters}
    \cup {[kind |-> k, retry_after |-> 0] :
             k \in RetryableErrors \cup DroppingErrors}

IsUncounted(outcome) == outcome.kind \in {"Deferred", "Throttled"}

(* Mutant: an accepted request is put back in the queue as well. *)
RecordOutcome_AcceptRequeues(q, cfg, request, outcome) ==
    CASE outcome.kind = "Accepted" ->
            [q EXCEPT !.metrics.accepted = @ + 1,
                      !.accepted = @ \cup {request.id},
                      !.pending = Append(@, request)]
      [] outcome.kind = "Deferred" ->
            [ScheduleRetry([q EXCEPT !.metrics.deferred = @ + 1],
                           cfg, request, outcome.retry_after, FALSE)
                EXCEPT !.uncounted = Bump(@, request.id),
                       !.deferredIds = @ \cup {request.id}]
      [] outcome.kind = "Throttled" ->
            [ScheduleRetry([q EXCEPT !.metrics.throttled = @ + 1],
                           cfg, request, outcome.retry_after, FALSE)
                EXCEPT !.uncounted = Bump(@, request.id)]
      [] outcome.kind \in RetryableErrors ->
            LET counted == IF outcome.kind = "Timeout"
                           THEN [q EXCEPT !.metrics.timed_out = @ + 1]
                           ELSE [q EXCEPT !.metrics.transport_errors = @ + 1]
                delay == IF outcome.kind = "Timeout" THEN TimeoutRetryDelay
                                                     ELSE TransportRetryDelay
                r == RetryOrDrop(counted, cfg, request, delay)
            IN IF r.dropped_now
               THEN [r EXCEPT !.dropped_now = FALSE,
                              !.dropCount = Bump(@, request.id),
                              !.exhausted = @ \cup {request.id}]
               ELSE r
      [] OTHER ->
            [q EXCEPT !.metrics.dropped = @ + 1,
                      !.dropCount = Bump(@, request.id)]

(* One arm of the match on registry.dispatch(&request): record_accept,      *)
(* record_deferred or record_error, on q = [pending, delayed, metrics,      *)
(* dropped_now] extended with the history fields accepted, dropCount,       *)
(* exhausted, uncounted and deferredIds.                                    *)
RecordOutcome(q, cfg, request, outcome) ==
    CASE outcome.kind = "Accepted" ->
            [q EXCEPT !.metrics.accepted = @ + 1,
                      !.accepted = @ \cup {request.id}]
      [] outcome.kind = "Deferred" ->
            [ScheduleRetry([q EXCEPT !.metrics.deferred = @ + 1],
                           cfg, request, outcome.retry_after, FALSE)
                EXCEPT !.uncounted = Bump(@, request.id),
                       !.deferredIds = @ \cup {request.id}]
      [] outcome.kind = "Throttled" ->
            [ScheduleRetry([q EXCEPT !.metrics.throttled = @ + 1],
                           cfg, request, outcome.retry_after, FALSE)
                EXCEPT !.uncounted = Bump(@, request.id)]
      [] outcome.kind \in RetryableErrors ->
            LET counted == IF outcome.kind = "Timeout"
                           THEN [q EXCEPT !.metrics.timed_out = @ + 1]
                           ELSE [q EXCEPT !.metrics.transport_errors = @ + 1]
                delay == IF outcome.kind = "Timeout" THEN TimeoutRetryDelay
                                                     ELSE TransportRetryDelay
                r == RetryOrDrop(counted, cfg, request, delay)
            IN IF r.dropped_now
               THEN [r EXCEPT !.dropped_now = FALSE,
                              !.dropCount = Bump(@, request.id),
                              !.exhausted = @ \cup {request.id}]
               ELSE r
      [] OTHER ->
            [q EXCEPT !.metrics.dropped = @ + 1,
                      !.dropCount = Bump(@, request.id)]

(* for request in ready { match registry.dispatch(&request) { ... } } *)
RECURSIVE DispatchReady(_, _, _, _)
DispatchReady(q, cfg, ready, outcomes) ==
    IF ready = <<>>
    THEN q
    ELSE DispatchReady(RecordOutcome(q, cfg, Head(ready), Head(outcomes)),
                       cfg, Tail(ready), Tail(outcomes))

(* The queue after queue.tick(delta_seconds) and                            *)
(* queue.take_ready_limit(min(max_dispatches_per_tick, 16)).                *)
TickThenTake(delta_seconds) ==
    LET t == TickDelayed(delayed, delta_seconds, pending, <<>>)
        limit == Min(config.max_dispatches_per_tick, MaxDispatchPerFrame)
        taken == TakeLoop(
                    [pending |-> t.pending,
                     npc_cooldowns |->
                        [n \in DOMAIN npc_cooldowns |->
                            CooldownTick(npc_cooldowns[n], delta_seconds)],
                     global_cooldown |->
                        CooldownTick(global_cooldown, delta_seconds),
                     ready |-> <<>>],
                    config, limit)
    IN [pending |-> taken.pending, delayed |-> t.delayed,
        npc_cooldowns |-> taken.npc_cooldowns,
        global_cooldown |-> taken.global_cooldown, ready |-> taken.ready]

(* What one run leaves in the queue, given the requests taken and the      *)
(* outcome of dispatching each of them.                                     *)
ApplyRun(delta_seconds, taken, outcomes) ==
    /\ \E q \in {DispatchReady(
                     [pending |-> taken.pending, delayed |-> taken.delayed,
                      metrics |-> metrics, dropped_now |-> FALSE,
                      accepted |-> accepted, dropCount |-> dropCount,
                      exhausted |-> exhausted, uncounted |-> uncounted,
                      deferredIds |-> deferredIds],
                     config, taken.ready, outcomes)} :
          /\ pending' = q.pending
          /\ delayed' = q.delayed
          /\ metrics' = q.metrics
          /\ accepted' = q.accepted
          /\ dropCount' = q.dropCount
          /\ exhausted' = q.exhausted
          /\ uncounted' = q.uncounted
          /\ deferredIds' = q.deferredIds
    /\ npc_cooldowns' = taken.npc_cooldowns
    /\ global_cooldown' = taken.global_cooldown
    /\ dispatchCount' = BumpAll(dispatchCount, taken.ready)
    /\ sinceGlobal' =
          IF taken.ready # <<>> THEN 0
          ELSE Elapse(sinceGlobal, delta_seconds, config.global_cooldown_secs)
    /\ sinceNpc' =
          [n \in NpcIds |->
              IF \E r \in Range(taken.ready) : r.npc_id = n THEN 0
              ELSE Elapse(sinceNpc[n], delta_seconds,
                          config.per_npc_cooldown_secs)]
    /\ retryClock' =
          RetryClockStep(retryClock, delta_seconds,
                         {r.id : r \in Range(taken.ready)},
                         ScheduledIn(config, taken.ready, outcomes))
    /\ UNCHANGED <<config, next_id, dispatched, issued>>

(* One run of the system: the whole of run_dialogue_queue.  Every request   *)
(* taken is dispatched and its outcome recorded before the system returns.  *)
RunDialogueQueue(delta_seconds, outcomes) ==
    \E taken \in {TickThenTake(delta_seconds)} :
       /\ Len(outcomes) = Len(taken.ready)
       /\ \A i \in 1..Len(outcomes) :
             IsUncounted(outcomes[i])
                => CountOf(uncounted, taken.ready[i].id) < MaxUncounted
       /\ ApplyRun(delta_seconds, taken, outcomes)
       /\ UNCHANGED <<brokerVars, telemetryVars>>

TickInit ==
    /\ pending = <<>>
    /\ delayed = <<>>
    /\ npc_cooldowns = <<>>
    /\ global_cooldown = CooldownReady
    /\ config \in [global_cooldown_secs : GlobalCooldownChoices,
                   per_npc_cooldown_secs : PerNpcCooldownChoices,
                   max_retries : MaxRetriesChoices,
                   max_dispatches_per_tick : MaxDispatchesChoices]
    /\ metrics = DefaultMetrics
    /\ next_id = InitialNextId
    /\ dispatched = {}
    /\ issued = <<>>
    /\ accepted = {}
    /\ dropCount = <<>>
    /\ exhausted = {}
    /\ dispatchCount = <<>>
    /\ uncounted = <<>>
    /\ deferredIds = {}
    /\ sinceGlobal = Trigger(config.global_cooldown_secs)
    /\ sinceNpc = [n \in NpcIds |-> Trigger(config.per_npc_cooldown_secs)]
    /\ retryClock = <<>>
    /\ BrokerIdle
    /\ TelemetryIdle

TickNext ==
    \/ \E provider \in Providers, npc \in Speakers, prompt \in Prompts :
          Enqueue(provider, npc, prompt)
    \/ \E delta_seconds \in Deltas :
          \E outcomes \in [1..Len(TickThenTake(delta_seconds).ready)
                               -> SubmissionOutcomes] :
             RunDialogueQueue(delta_seconds, outcomes)

TickSpec == TickInit /\ [][TickNext]_vars

(* ---------------------- ticks that keep occurring ---------------------- *)
(* The scheduler runs run_dialogue_queue in every frame.  A dispatch is     *)
(* accepted or fails with an error that is retried after a delay.  The      *)
(* dispatch limit of the configuration is a usize: it may be 0.             *)
LiveConfigs ==
    [global_cooldown_secs : {1}, per_npc_cooldown_secs : {2},
     max_retries : MaxRetriesChoices,
     max_dispatches_per_tick : {0} \cup MaxDispatchesChoices]
LiveOutcomes ==
    {o \in SubmissionOutcomes : o.kind \in {"Accepted"} \cup RetryableErrors}
AllAccepted(n) == [i \in 1..n |-> [kind |-> "Accepted", retry_after |-> 0]]

(* A run of the system in a frame with positive elapsed time in which every *)
(* request dispatched is accepted.                                          *)
AcceptingTick ==
    \E delta_seconds \in Deltas \ {0} :
       RunDialogueQueue(delta_seconds,
                        AllAccepted(Len(TickThenTake(delta_seconds).ready)))

LiveInit ==
    /\ pending = <<>>
    /\ delayed = <<>>
    /\ npc_cooldowns = <<>>
    /\ global_cooldown = CooldownReady
    /\ config \in LiveConfigs
    /\ metrics = DefaultMetrics
    /\ next_id = InitialNextId
    /\ dispatched = {}
    /\ issued = <<>>
    /\ accepted = {}
    /\ dropCount = <<>>
    /\ exhausted = {}
    /\ dispatchCount = <<>>
    /\ uncounted = <<>>
    /\ deferredIds = {}
    /\ sinceGlobal = Trigger(config.global_cooldown_secs)
    /\ sinceNpc = [n \in NpcIds |-> Trigger(config.per_npc_cooldown_secs)]
    /\ retryClock = <<>>
    /\ BrokerIdle
    /\ TelemetryIdle

LiveNext ==
    \/ \E provider \in Providers, npc \in Speakers, prompt \in Prompts :
          Enqueue(provider, npc, prompt)
    \/ \E delta_seconds \in Deltas :
          \E outcomes \in [1..Len(TickThenTake(delta_seconds).ready)
                               -> LiveOutcomes] :
             RunDialogueQueue(delta_seconds, outcomes)

LiveSpec == LiveInit /\ [][LiveNext]_vars /\ WF_vars(AcceptingTick)

(* -------------------------------- broker ------------------------------- *)
(* Strings the broker inspects are sequences of characters. *)
EmptyPromptError == "prompt cannot be empty"
EmptyCompletionError == "OpenAI returned an empty completion for dialogue request"
ManualRetryPrompt == <<"r", "e", "t", "r", "y", " ", "l", "a", "t", "e", "r">>

Whitespace == {" ", "\t", "\n"}
UpperCase == <<"A", "B", "C", "D", "E", "F", "G", "H", "I", "J", "K", "L", "M",
               "N", "O", "P", "Q", "R", "S", "T", "U", "V", "W", "X", "Y", "Z">>
LowerCase == <<"a", "b", "c", "d", "e", "f", "g", "h", "i", "j", "k", "l", "m",
               "n", "o", "p", "q", "r", "s", "t", "u", "v", "w", "x", "y", "z">>

(* char::to_ascii_lowercase *)
ToAsciiLower(c) ==
    IF \E i \in 1..Len(UpperCase) : UpperCase[i] = c
    THEN LowerCase[CHOOSE i \in 1..Len(UpperCase) : UpperCase[i] = c]
    ELSE c

(* str::eq_ignore_ascii_case *)
EqIgnoreAsciiCase(a, b) ==
    /\ Len(a) = Len(b)
    /\ \A i \in 1..Len(a) : ToAsciiLower(a[i]) = ToAsciiLower(b[i])

RECURSIVE TrimStart(_)
TrimStart(text) ==
    IF text # <<>> /\ Head(text) \in Whitespace
    THEN TrimStart(Tail(text))
    ELSE text

RECURSIVE TrimEnd(_)
TrimEnd(text) ==
    IF text # <<>> /\ text[Len(text)] \in Whitespace
    THEN TrimEnd(SubSeq(text, 1, Len(text) - 1))
    ELSE text

(* str::trim *)
Trim(text) == TrimEnd(TrimStart(text))

BrokerModes == {"Live", "Fallback"}
BrokerEnvs == {"configured", "missing_api_key", "client_build_failed"}
TopicHints == {"Status", "Trade", "Schedule"}
BrokerSpeakers == {1}
BrokerPrompts ==
    {<<>>, <<" ">>, <<" ", "\t">>, <<"h", "i">>, ManualRetryPrompt,
     <<"R", "e", "t", "r", "y", " ", "L", "A", "T", "E", "R">>,
     <<" ">> \o ManualRetryPrompt}
(* Option<String>: <<>> is None, <<text>> is Some(text). *)
Summaries == {<<>>, <<"">>, <<"s">>}
EventLists == {<<>>, <<"Trade">>, <<"ScheduleUpdate">>,
               <<"ScheduleUpdate", "Trade">>}
Contexts == [summary : Summaries, events : EventLists]
NoHeader == -1
(* What the HTTP call of send can come back with. *)
NetReplies ==
    {[status |-> "transport_error", retry_after |-> NoHeader, completion |-> <<>>],
     [status |-> "500", retry_after |-> NoHeader, completion |-> <<>>],
     [status |-> "200", retry_after |-> NoHeader, completion |-> <<" ">>],
     [status |-> "200", retry_after |-> NoHeader, completion |-> <<"o", "k">>]}
    \cup {[status |-> "429", retry_after |-> h, completion |-> <<>>] :
             h \in {NoHeader} \cup RetryAfters}

OkResult == [kind |-> "Ok", retry_after |-> 0, message |-> "", missing |-> "None"]
RateLimited(retry_after_seconds) ==
    [kind |-> "RateLimited", retry_after |-> retry_after_seconds,
     message |-> "", missing |-> "None"]
ProviderFailure(message) ==
    [kind |-> "ProviderFailure", retry_after |-> 0, message |-> message,
     missing |-> "None"]
ContextMissing(missing) ==
    [kind |-> "ContextMissing", retry_after |-> 0, message |-> "",
     missing |-> missing]

(* OpenAiDialogueBroker::new: live only when the configuration is there and *)
(* the HTTP client could be built.                                          *)
NewBroker(env) == IF env = "configured" THEN "Live" ELSE "Fallback"

(* provider_kind *)
ProviderKind(m) == "OpenAi"

HasEvent(request, kind) ==
    \E i \in 1..Len(request.context.events) : request.context.events[i] = kind

(* Mutant: the topic's context is checked before the manual-retry prompt. *)
Validate_TopicFirst(request) ==
    IF Trim(request.prompt) = <<>>
    THEN ProviderFailure(EmptyPromptError)
    ELSE IF request.topic_hint = "Trade" /\ request.context.summary = <<>>
    THEN ContextMissing("InventoryState")
    ELSE IF request.topic_hint = "Trade" /\ ~HasEvent(request, "Trade")
    THEN ContextMissing("TradeHistory")
    ELSE IF request.topic_hint = "Schedule"
            /\ ~HasEvent(request, "ScheduleUpdate")
    THEN ContextMissing("ScheduleState")
    ELSE IF EqIgnoreAsciiCase(request.prompt, ManualRetryPrompt)
    THEN RateLimited(ManualRetryBackoffSeconds)
    ELSE OkResult

(* Mutant: the prompt is tested for emptiness without being trimmed. *)
Validate_NoTrim(request) ==
    IF request.prompt = <<>>
    THEN ProviderFailure(EmptyPromptError)
    ELSE IF EqIgnoreAsciiCase(request.prompt, ManualRetryPrompt)
    THEN RateLimited(ManualRetryBackoffSeconds)
    ELSE IF request.topic_hint = "Trade" /\ request.context.summary = <<>>
    THEN ContextMissing("InventoryState")
    ELSE IF request.topic_hint = "Trade" /\ ~HasEvent(request, "Trade")
    THEN ContextMissing("TradeHistory")
    ELSE IF request.topic_hint = "Schedule"
            /\ ~HasEvent(request, "ScheduleUpdate")
    THEN ContextMissing("ScheduleState")
    ELSE OkResult

(* Mutant: any context event satisfies the Trade topic. *)
Validate_AnyEventCounts(request) ==
    IF Trim(request.prompt) = <<>>
    THEN ProviderFailure(EmptyPromptError)
    ELSE IF EqIgnoreAsciiCase(request.prompt, ManualRetryPrompt)
    THEN RateLimited(ManualRetryBackoffSeconds)
    ELSE IF request.topic_hint = "Trade" /\ request.context.summary = <<>>
    THEN ContextMissing("InventoryState")
    ELSE IF request.topic_hint = "Trade" /\ request.context.events = <<>>
    THEN ContextMissing("TradeHistory")
    ELSE IF request.topic_hint = "Schedule"
            /\ ~HasEvent(request, "ScheduleUpdate")
    THEN ContextMissing("ScheduleState")
    ELSE OkResult

(* OpenAiDialogueBroker::validate *)
Validate(request) ==
    IF Trim(request.prompt) = <<>>
    THEN ProviderFailure(EmptyPromptError)
    ELSE IF EqIgnoreAsciiCase(request.prompt, ManualRetryPrompt)
    THEN RateLimited(ManualRetryBackoffSeconds)
    ELSE IF request.topic_hint = "Trade" /\ request.context.summary = <<>>
    THEN ContextMissing("InventoryState")
    ELSE IF request.topic_hint = "Trade" /\ ~HasEvent(request, "Trade")
    THEN ContextMissing("TradeHistory")
    ELSE IF request.topic_hint = "Schedule"
            /\ ~HasEvent(request, "ScheduleUpdate")
    THEN ContextMissing("ScheduleState")
    ELSE OkResult

(* OpenAiLiveClient::send, given what the HTTP call came back with. *)
Send(reply) ==
    IF reply.status = "transport_error"
    THEN ProviderFailure("transport")
    ELSE IF reply.status = "429"
    THEN RateLimited(IF reply.retry_after = NoHeader
                     THEN DefaultRateLimitBackoff
                     ELSE reply.retry_after)
    ELSE IF reply.status # "200"
    THEN ProviderFailure("http status")
    ELSE IF Trim(reply.completion) = <<>>
    THEN ProviderFailure(EmptyCompletionError)
    ELSE OkResult

(* Mutant: in live mode the request is sent before it is validated. *)
Process_SendsFirst(m, request, reply) ==
    LET validated == Validate(request)
    IN IF m = "Live"
       THEN [result |-> IF validated.kind # "Ok" THEN validated ELSE Send(reply),
             network_call |-> TRUE, mode |-> m]
       ELSE IF validated.kind # "Ok"
       THEN [result |-> validated, network_call |-> FALSE, mode |-> m]
       ELSE [result |-> OkResult, network_call |-> FALSE, mode |-> m]

(* Mutant: a failed network call makes the broker fall back. *)
Process_FallsBackOnFailure(m, request, reply) ==
    LET validated == Validate(request)
    IN IF validated.kind # "Ok"
       THEN [result |-> validated, network_call |-> FALSE, mode |-> m]
       ELSE IF m = "Live"
       THEN [result |-> Send(reply), network_call |-> TRUE,
             mode |-> IF Send(reply).kind = "Ok" THEN m ELSE "Fallback"]
       ELSE [result |-> OkResult, network_call |-> FALSE, mode |-> m]

(* DialogueBroker::process of the broker in mode m: its result, whether the *)
(* network was called, and the mode of the broker afterwards.               *)
Process(m, request, reply) ==
    LET validated == Validate(request)
    IN IF validated.kind # "Ok"
       THEN [result |-> validated, network_call |-> FALSE, mode |-> m]
       ELSE IF m = "Live"
       THEN [result |-> Send(reply), network_call |-> TRUE, mode |-> m]
       ELSE [result |-> OkResult, network_call |-> FALSE, mode |-> m]

(* ----------------- the queue driven through the broker ------------------ *)
(* DialogueRequest (types.rs) of a queued request: the queue entry carries  *)
(* speaker and prompt, request_meta the topic hint and the context (and,    *)
(* for the record, the prompt).                                             *)
RequestOf(queued) ==
    [speaker |-> queued.npc_id, prompt |-> queued.prompt,
     topic_hint |-> request_meta[queued.id].topic_hint,
     context |-> request_meta[queued.id].context]

(* How the result of process is handed to the queue: a response is          *)
(* accepted, RateLimited is the throttled arm of record_error with the      *)
(* retry-after it carries, ProviderFailure and ContextMissing take the      *)
(* retry_or_drop arm.                                                       *)
SubmissionOf(result) ==
    CASE result.kind = "Ok" -> [kind |-> "Accepted", retry_after |-> 0]
      [] result.kind = "RateLimited" ->
            [kind |-> "Throttled", retry_after |-> result.retry_after]
      [] OTHER -> [kind |-> "Transport", retry_after |-> 0]

(* process called for each request taken, in order, by the same broker. *)
RECURSIVE ProcessAll(_, _, _)
ProcessAll(m, ready, replies) ==
    IF ready = <<>>
    THEN [mode |-> m, processed |-> <<>>]
    ELSE LET p == Process(m, RequestOf(Head(ready)), Head(replies))
             rest == ProcessAll(p.mode, Tail(ready), Tail(replies))
         IN [mode |-> rest.mode, processed |-> <<p>> \o rest.processed]

NoCalls == [calls |-> 0, last |-> OkResult, network_calls |-> 0]

CallsOf(log, id) == IF id \in DOMAIN log THEN log[id] ELSE NoCalls

RECURSIVE LogAll(_, _, _)
LogAll(log, ready, processed) ==
    IF ready = <<>>
    THEN log
    ELSE LET id == Head(ready).id
             old == CallsOf(log, id)
             new == [calls |-> old.calls + 1,
                     last |-> Head(processed).result,
                     network_calls |-> old.network_calls
                        + (IF Head(processed).network_call THEN 1 ELSE 0)]
         IN LogAll([x \in DOMAIN log \cup {id} |->
                       IF x = id THEN new ELSE log[x]],
                   Tail(ready), Tail(processed))

(* enqueue of a DialogueRequest (plugin.rs: queue.enqueue(request)). *)
SubmitRequest(speaker, prompt, topic_hint, context) ==
    /\ LET id == next_id
       IN /\ next_id' = NextIdAfter(next_id)
          /\ pending' = Append(pending, NewRequest(id, "OpenAi", speaker, prompt))
          /\ metrics' = [metrics EXCEPT !.enqueued = @ + 1]
          /\ issued' = Append(issued, id)
          /\ request_meta' =
                request_meta @@ (id :> [prompt |-> prompt,
                                        topic_hint |-> topic_hint,
                                        context |-> context])
    /\ UNCHANGED <<delayed, npc_cooldowns, global_cooldown, config, dispatched,
                   accepted, dropCount, exhausted, dispatchCount, uncounted,
                   deferredIds, sinceGlobal, sinceNpc, retryClock, mode,
                   constructedMode, processLog, sinceBackoff, waitedAtDispatch,
                   assembled, exchange, telemetryVars>>

Submit(speaker, prompt, topic_hint, context) ==
    /\ Len(issued) < MaxSubmitted
    /\ SubmitRequest(speaker, prompt, topic_hint, context)

(* One run of run_dialogue_queue whose dispatch is the broker's process. *)
RunBrokerTick(delta_seconds, replies) ==
    \E taken \in {TickThenTake(delta_seconds)} :
       /\ Len(replies) = Len(taken.ready)
       /\ \A r \in Range(taken.ready) :
             CallsOf(processLog, r.id).calls < MaxProcessCalls
       /\ \E run \in {ProcessAll(mode, taken.ready, replies)} :
             /\ ApplyRun(delta_seconds, taken,
                         [i \in 1..Len(taken.ready) |->
                             SubmissionOf(run.processed[i].result)])
             /\ mode' = run.mode
             /\ processLog' = LogAll(processLog, taken.ready, run.processed)
       /\ LET now == {r.id : r \in Range(taken.ready)}
              waited(id) ==
                 Min(CountOf(sinceBackoff, id) + delta_seconds,
                     processLog[id].last.retry_after)
          IN /\ sinceBackoff' =
                   [id \in DOMAIN processLog' |->
                       IF id \in now THEN 0 ELSE waited(id)]
             /\ waitedAtDispatch' =
                   [id \in DOMAIN waitedAtDispatch
                              \cup (now \cap DOMAIN processLog) |->
                       IF id \in now THEN waited(id)
                                     ELSE waitedAtDispatch[id]]
       /\ UNCHANGED <<constructedMode, request_meta, assembled, exchange,
                      telemetryVars>>

BrokerInit ==
    /\ pending = <<>>
    /\ delayed = <<>>
    /\ npc_cooldowns = <<>>
    /\ global_cooldown = CooldownReady
    /\ config \in [global_cooldown_secs : GlobalCooldownChoices,
                   per_npc_cooldown_secs : PerNpcCooldownChoices,
                   max_retries : MaxRetriesChoices,
                   max_dispatches_per_tick : MaxDispatchesChoices]
    /\ metrics = DefaultMetrics
    /\ next_id = InitialNextId
    /\ dispatched = {}
    /\ issued = <<>>
    /\ accepted = {}
    /\ dropCount = <<>>
    /\ exhausted = {}
    /\ dispatchCount = <<>>
    /\ uncounted = <<>>
    /\ deferredIds = {}
    /\ sinceGlobal = Trigger(config.global_cooldown_secs)
    /\ sinceNpc = [n \in NpcIds |-> Trigger(config.per_npc_cooldown_secs)]
    /\ retryClock = <<>>
    /\ \E env \in BrokerEnvs : mode = NewBroker(env)
    /\ constructedMode = mode
    /\ request_meta = <<>>
    /\ processLog = <<>>
    /\ sinceBackoff = <<>>
    /\ waitedAtDispatch = <<>>
    /\ assembled = NoAssembly
    /\ exchange = NoExchange
    /\ TelemetryIdle

BrokerNext ==
    \/ \E speaker \in BrokerSpeakers, prompt \in BrokerPrompts,
          topic_hint \in TopicHints, context \in Contexts :
          Submit(speaker, prompt, topic_hint, context)
    \/ \E delta_seconds \in Deltas :
          \E replies \in [1..Len(TickThenTake(delta_seconds).ready)
                              -> NetReplies] :
             RunBrokerTick(delta_seconds, replies)

BrokerSpec == BrokerInit /\ [][BrokerNext]_vars

(* -------------------------- message assembly --------------------------- *)
(* A text is a sequence of characters, a line of a message its kind, its    *)
(* text and, for the line of a context event, the position of the event in  *)
(* the request's context (0 otherwise).                                     *)
Targets == {<<>>, <<2>>}
AssemblyPrompts == {<<"h", "i">>, <<" ", "h", "i">>}
AssemblySummaries == {<<>>, <<<<>>>>, <<<<" ">>>>, <<<<"s">>>>}
AssemblyEventLists == EventLists \cup {<<"Trade", "ScheduleUpdate">>}
ScheduleDescriptions == {<<" ">>, <<"d">>}
(* The description of every ScheduleUpdate event; a Trade event has none. *)
DescriptionsOf(events) ==
    {d \in [1..Len(events) -> ScheduleDescriptions \cup {<<>>}] :
        \A i \in 1..Len(events) : (d[i] = <<>>) = (events[i] = "Trade")}
AssemblyContexts ==
    {[summary |-> summary, events |-> events, descriptions |-> descriptions] :
        summary \in AssemblySummaries, events \in AssemblyEventLists,
        descriptions \in UNION {DescriptionsOf(e) : e \in AssemblyEventLists}}
AssemblyRequests ==
    {r \in [speaker : BrokerSpeakers, target : Targets,
            prompt : AssemblyPrompts, topic_hint : TopicHints,
            context : AssemblyContexts] :
        r.context.descriptions \in DescriptionsOf(r.context.events)}

FallbackTargetLabel == <<"p", "l", "a", "y", "e", "r">>
ContextFallbackMessage == <<"No notable context available.">>
UserMessageResponseInstruction ==
    <<"Respond as the speaker, addressing the target naturally.">>
SystemPrompt == <<"You are a medieval villager in a life-simulation game.">>

(* Display of NpcId: "NPC-{:04}" *)
NpcIdToString(id) == <<"N", "P", "C", "-", "0", "0", "0", ToString(id)>>

(* topic_label *)
TopicLabel(topic) ==
    CASE topic = "Status" -> <<"status">>
      [] topic = "Trade" -> <<"trade">>
      [] topic = "Schedule" -> <<"schedule">>

Line(kind, text) == [kind |-> kind, text |-> text, event |-> 0]
EventLine(text, i) == [kind |-> "Event", text |-> text, event |-> i]

(* request.target.map(|id| id.to_string()).unwrap_or_else(FALLBACK_TARGET_LABEL) *)
TargetLabel(request) ==
    IF request.target = <<>> THEN FallbackTargetLabel
    ELSE NpcIdToString(request.target[1])

(* The events loop of build_user_message: a trade event is always rendered, *)
(* a schedule update only when its trimmed description is not empty.        *)
RECURSIVE UserMessageEvents(_, _)
UserMessageEvents(request, i) ==
    IF i > Len(request.context.events)
    THEN <<>>
    ELSE (IF request.context.events[i] = "Trade"
          THEN <<EventLine(<<"Trade event: Day ">>, i)>>
          ELSE IF Trim(request.context.descriptions[i]) # <<>>
          THEN <<EventLine(Trim(request.context.descriptions[i]), i)>>
          ELSE <<>>)
         \o UserMessageEvents(request, i + 1)

(* build_user_message: the sections that are joined with "\n". *)
BuildUserMessage(request) ==
    LET head == <<Line("Speaker", NpcIdToString(request.speaker)),
                  Line("Target", TargetLabel(request)),
                  Line("Topic", TopicLabel(request.topic_hint)),
                  Line("Prompt", Trim(request.prompt))>>
        summary ==
            IF request.context.summary # <<>>
               /\ Trim(request.context.summary[1]) # <<>>
            THEN <<Line("Summary", Trim(request.context.summary[1]))>>
            ELSE <<>>
        sections == head \o summary \o UserMessageEvents(request, 1)
    IN (IF Len(sections) = 4
        THEN Append(sections, Line("NoContext", ContextFallbackMessage))
        ELSE sections)
       \o <<Line("Instruction", UserMessageResponseInstruction)>>

(* build_messages: the system prompt, then the user message. *)
BuildMessages(request) ==
    <<[role |-> "system", content |-> <<Line("System", SystemPrompt)>>],
      [role |-> "user", content |-> BuildUserMessage(request)]>>

(* The events loop of compose_context_segments: every event is rendered,    *)
(* the description of a schedule update as it is.                           *)
RECURSIVE ContextSegmentEvents(_, _)
ContextSegmentEvents(request, i) ==
    IF i > Len(request.context.events)
    THEN <<>>
    ELSE (IF request.context.events[i] = "Trade"
          THEN <<EventLine(<<"On day ">>, i)>>
          ELSE <<EventLine(request.context.descriptions[i] \o <<".">>, i)>>)
         \o ContextSegmentEvents(request, i + 1)

(* compose_context_segments: the segments that are joined with " ". *)
ComposeContextSegments(request) ==
    LET prompt == <<Line("Prompt", Trim(request.prompt))>>
        summary ==
            IF request.context.summary # <<>>
               /\ Trim(request.context.summary[1]) # <<>>
            THEN <<Line("Summary", Trim(request.context.summary[1]))>>
            ELSE <<>>
        segments == prompt \o summary
                    \o <<Line("Target", TargetLabel(request))>>
                    \o ContextSegmentEvents(request, 1)
    IN IF segments = <<>>
       THEN <<Line("NoContext", ContextFallbackMessage)>>
       ELSE segments

(* fabricate_response: the content of the response of the fallback mode. *)
FabricateResponse(request) ==
    [speaker |-> request.speaker, target |-> request.target,
     content |-> ComposeContextSegments(request)]

(* process of a live broker for a request that passes validate: send builds *)
(* the chat messages of the request.                                        *)
SendMessages(request) ==
    /\ mode = "Live"
    /\ Validate(request).kind = "Ok"
    /\ assembled' = [mode |-> mode, request |-> <<request>>,
                     lines |-> BuildMessages(request)[2].content]
    /\ UNCHANGED <<queueVars, mode, constructedMode, request_meta, processLog,
                   sinceBackoff, waitedAtDispatch, exchange, telemetryVars>>

(* process of a fallback broker for a request that passes validate. *)
Fabricate(request) ==
    /\ mode = "Fallback"
    /\ Validate(request).kind = "Ok"
    /\ assembled' = [mode |-> mode, request |-> <<request>>,
                     lines |-> FabricateResponse(request).content]
    /\ UNCHANGED <<queueVars, mode, constructedMode, request_meta, processLog,
                   sinceBackoff, waitedAtDispatch, exchange, telemetryVars>>

AssemblyInit ==
    /\ QueueIdle
    /\ \E env \in BrokerEnvs : mode = NewBroker(env)
    /\ constructedMode = mode
    /\ request_meta = <<>>
    /\ processLog = <<>>
    /\ sinceBackoff = <<>>
    /\ waitedAtDispatch = <<>>
    /\ assembled = NoAssembly
    /\ exchange = NoExchange
    /\ TelemetryIdle

AssemblyNext ==
    \/ \E request \in AssemblyRequests : SendMessages(request)
    \/ \E request \in AssemblyRequests : Fabricate(request)

AssemblySpec == AssemblyInit /\ [][AssemblyNext]_vars

(* --------------------------- the live client --------------------------- *)
(* What the provider answers: the HTTP status, the Retry-After header       *)
(* (<<>> when absent, <<text>> otherwise), whether the body of an error     *)
(* status is an OpenAiErrorResponse, whether the body of a success status   *)
(* is a ChatCompletionResponse, and the content of each of its choices      *)
(* (<<>> is None, <<text>> is Some(text)).                                  *)
Statuses == {200, 204, 301, 400, 429, 500}
RetryAfterHeaders ==
    {<<>>, <<<<"0">>>>, <<<<"2">>>>, <<<<"1", "0">>>>, <<<<"+", "2">>>>,
     <<<<"-", "1">>>>, <<<<>>>>, <<<<" ", "2">>>>, <<<<"W", "e", "d">>>>,
     <<<<"2", "0x80">>>>}
ChoiceLists ==
    {<<>>, <<<<>>>>, <<<<<<" ">>>>>>, <<<<<<" ", "o", "k", " ">>>>>>,
     <<<<>>, <<<<"o", "k">>>>>>, <<<<<<"o", "k">>>>, <<<<"n", "o">>>>>>,
     <<<<<<" ">>>>, <<<<"o", "k">>>>>>}
HttpResponses ==
    [status : Statuses, retry_after : RetryAfterHeaders,
     error_body : BOOLEAN, completion_body : BOOLEAN, choices : ChoiceLists]

Digits == <<"0", "1", "2", "3", "4", "5", "6", "7", "8", "9">>
IsDigit(c) == \E d \in 1..Len(Digits) : Digits[d] = c
DigitValue(c) == (CHOOSE d \in 1..Len(Digits) : Digits[d] = c) - 1

RECURSIVE DecimalValue(_, _)
DecimalValue(text, acc) ==
    IF text = <<>> THEN acc
    ELSE DecimalValue(Tail(text), acc * 10 + DigitValue(Head(text)))

(* str::parse::<f32> on whole numbers: an optional sign, then digits and    *)
(* nothing else (no surrounding whitespace); <<>> is Err.                   *)
ParseF32(text) ==
    LET signed == text # <<>> /\ Head(text) \in {"+", "-"}
        digits == IF signed THEN Tail(text) ELSE text
    IN IF digits = <<>> \/ \E i \in 1..Len(digits) : ~IsDigit(digits[i])
       THEN <<>>
       ELSE IF signed /\ Head(text) = "-"
       THEN <<0 - DecimalValue(digits, 0)>>
       ELSE <<DecimalValue(digits, 0)>>

(* HeaderValue::to_str: Err when a byte (here 0x80) is not visible ASCII. *)
ToStr(value) ==
    IF \E i \in 1..Len(value) : value[i] = "0x80" THEN <<>> ELSE <<value>>

(* parse_retry_after *)
ParseRetryAfter(headers) ==
    IF headers.retry_after = <<>> THEN <<>>
    ELSE IF ToStr(headers.retry_after[1]) = <<>> THEN <<>>
    ELSE ParseF32(ToStr(headers.retry_after[1])[1])

(* find_map(|choice| choice.message.content): the first content there is. *)
RECURSIVE FindMapContent(_)
FindMapContent(choices) ==
    IF choices = <<>> THEN <<>>
    ELSE IF Head(choices) # <<>> THEN Head(choices)
    ELSE FindMapContent(Tail(choices))

Response(content) ==
    [kind |-> "Ok", retry_after |-> 0, message |-> "", content |-> content]
Failure(kind, retry_after, message) ==
    [kind |-> kind, retry_after |-> retry_after, message |-> message,
     content |-> <<>>]

(* Mutant: the completion text is returned as the provider wrote it. *)
SendHttp_NoStrip(response) ==
    IF response.status = 429
    THEN Failure("RateLimited",
                 IF ParseRetryAfter(response) = <<>>
                 THEN DefaultRateLimitBackoff
                 ELSE ParseRetryAfter(response)[1], "")
    ELSE IF ~(response.status >= 200 /\ response.status <= 299)
    THEN Failure("ProviderFailure", 0,
                 IF response.error_body THEN "error body" ELSE "HTTP status")
    ELSE IF ~response.completion_body
    THEN Failure("ProviderFailure", 0, "json")
    ELSE LET content == FindMapContent(response.choices)
         IN IF content = <<>> \/ Trim(content[1]) = <<>>
            THEN Failure("ProviderFailure", 0, EmptyCompletionError)
            ELSE Response(content[1])

(* OpenAiLiveClient::send from the status of the HTTP response on. *)
SendHttp(response) ==
    IF response.status = 429
    THEN Failure("RateLimited",
                 IF ParseRetryAfter(response) = <<>>
                 THEN DefaultRateLimitBackoff
                 ELSE ParseRetryAfter(response)[1], "")
    ELSE IF ~(response.status >= 200 /\ response.status <= 299)
    THEN Failure("ProviderFailure", 0,
                 IF response.error_body THEN "error body" ELSE "HTTP status")
    ELSE IF ~response.completion_body
    THEN Failure("ProviderFailure", 0, "json")
    ELSE LET content == FindMapContent(response.choices)
         IN IF content = <<>> \/ Trim(content[1]) = <<>>
            THEN Failure("ProviderFailure", 0, EmptyCompletionError)
            ELSE Response(Trim(content[1]))

(* The provider answers the HTTP call of a live broker. *)
Exchange(response) ==
    /\ mode = "Live"
    /\ exchange' = [response |-> <<response>>, result |-> <<SendHttp(response)>>]
    /\ UNCHANGED <<queueVars, mode, constructedMode, request_meta, processLog,
                   sinceBackoff, waitedAtDispatch, assembled, telemetryVars>>

ClientInit ==
    /\ QueueIdle
    /\ mode = NewBroker("configured")
    /\ constructedMode = mode
    /\ request_meta = <<>>
    /\ processLog = <<>>
    /\ sinceBackoff = <<>>
    /\ waitedAtDispatch = <<>>
    /\ assembled = NoAssembly
    /\ exchange = NoExchange
    /\ TelemetryIdle

ClientNext == \E response \in HttpResponses : Exchange(response)

ClientSpec == ClientInit /\ [][ClientNext]_vars

(* ------------------------------ telemetry ------------------------------ *)
(* A record is identified by the request id of its response or failure; the *)
(* timestamp it carries plays no part in buffering or flushing.             *)
TelemetryRecord(request_id, event) == [request_id |-> request_id, event |-> event]

(* DialogueTelemetry::new *)
NewTelemetry(capacity) == [capacity |-> Max(capacity, 1), records |-> <<>>]

(* while self.records.len() >= self.capacity { self.records.pop_front(); } *)
RECURSIVE EvictOld(_, _)
EvictOld(records, capacity) ==
    IF Len(records) >= capacity
    THEN EvictOld(Tail(records), capacity)
    ELSE records

(* Mutant: on overflow the newest record is evicted (pop_back). *)
TelemetryPush_EvictsNewest(t, record) ==
    IF Len(t.records) >= t.capacity
    THEN [t EXCEPT !.records =
             Append(SubSeq(@, 1, t.capacity - 1), record)]
    ELSE [t EXCEPT !.records = Append(@, record)]

(* DialogueTelemetry::push *)
TelemetryPush(t, record) ==
    [t EXCEPT !.records = Append(EvictOld(@, t.capacity), record)]

(* DialogueTelemetryLog::push *)
LogPush(p, record) == Append(p, record)

(* How the I/O of one flush goes: all of it succeeds, or create_dir_all     *)
(* fails, or opening the file fails, or writing the record at index `at` of *)
(* the drained records fails.                                               *)
IoOutcomes ==
    {[step |-> st, at |-> 0] : st \in {"ok", "create_dir_all", "open"}}
    \cup {[step |-> "write", at |-> k] : k \in 1..MaxPushes}

(* Mutant: the pending records are drained before the directory is created *)
(* and the file opened.                                                     *)
Flush_DrainsFirst(log, io) ==
    IF log.pending = <<>>
    THEN [pending |-> log.pending, file |-> log.file, ok |-> TRUE]
    ELSE IF io.step \in {"create_dir_all", "open"}
    THEN [pending |-> <<>>, file |-> log.file, ok |-> FALSE]
    ELSE LET drained == log.pending
             written == IF io.step = "write"
                        THEN SubSeq(drained, 1, io.at - 1)
                        ELSE drained
         IN [pending |-> <<>>, file |-> log.file \o written,
             ok |-> io.step = "ok"]

(* Mutant: a failed write puts every drained record back, the ones already *)
(* written included.                                                       *)
Flush_RequeuesOnWriteFailure(log, io) ==
    IF log.pending = <<>>
    THEN [pending |-> log.pending, file |-> log.file, ok |-> TRUE]
    ELSE IF io.step \in {"create_dir_all", "open"}
    THEN [pending |-> log.pending, file |-> log.file, ok |-> FALSE]
    ELSE LET drained == log.pending
             written == IF io.step = "write"
                        THEN SubSeq(drained, 1, io.at - 1)
                        ELSE drained
         IN [pending |-> IF io.step = "write" THEN drained ELSE <<>>,
             file |-> log.file \o written,
             ok |-> io.step = "ok"]

(* DialogueTelemetryLog::flush on log = [pending, file]; file is the        *)
(* sequence of complete lines appended so far.  ensure_directory and open   *)
(* fail before drain_pending; a failed write returns after it, and the      *)
(* drained records not yet written are gone with the loop's iterator.       *)
Flush(log, io) ==
    IF log.pending = <<>>
    THEN [pending |-> log.pending, file |-> log.file, ok |-> TRUE]
    ELSE IF io.step \in {"create_dir_all", "open"}
    THEN [pending |-> log.pending, file |-> log.file, ok |-> FALSE]
    ELSE LET drained == log.pending
             written == IF io.step = "write"
                        THEN SubSeq(drained, 1, io.at - 1)
                        ELSE drained
         IN [pending |-> <<>>, file |-> log.file \o written,
             ok |-> io.step = "ok"]

(* The events one frame delivers: the responses, then the failures. *)
FrameRecords(responses, failures, base) ==
    [i \in 1..(responses + failures) |->
        TelemetryRecord(base + i, IF i <= responses THEN "Response"
                                                   ELSE "Failure")]

RECURSIVE PushAllTelemetry(_, _)
PushAllTelemetry(t, records) ==
    IF records = <<>> THEN t
    ELSE PushAllTelemetry(TelemetryPush(t, Head(records)), Tail(records))

RECURSIVE PushAllLog(_, _)
PushAllLog(p, records) ==
    IF records = <<>> THEN p
    ELSE PushAllLog(LogPush(p, Head(records)), Tail(records))

(* record_dialogue_telemetry: every response and failure event of the frame *)
(* goes to the log and to the buffer.                                       *)
RecordDialogueTelemetry(responses, failures) ==
    /\ Len(pushed) + responses + failures <= MaxPushes
    /\ LET records == FrameRecords(responses, failures, Len(pushed))
       IN /\ log_pending' = PushAllLog(log_pending, records)
          /\ telemetry' = PushAllTelemetry(telemetry, records)
          /\ pushed' = pushed \o records
          /\ emitted' = emitted \o records
    /\ UNCHANGED <<queueVars, brokerVars, log_file, requested_capacity,
                   handed>>

(* flush_dialogue_telemetry_log: a failed flush is logged, nothing else. *)
FlushDialogueTelemetryLog(io) ==
    /\ io.step = "write" => io.at <= Len(log_pending)
    /\ LET log == Flush([pending |-> log_pending, file |-> log_file], io)
       IN /\ log_pending' = log.pending
          /\ log_file' = log.file
    /\ handed' = handed \cup Range(log_pending)
    /\ UNCHANGED <<queueVars, brokerVars, telemetry, pushed,
                   requested_capacity, emitted>>

TelemetryInit ==
    /\ QueueIdle
    /\ BrokerIdle
    /\ requested_capacity \in CapacityChoices
    /\ telemetry = NewTelemetry(requested_capacity)
    /\ log_pending = <<>>
    /\ log_file = <<>>
    /\ pushed = <<>>
    /\ emitted = <<>>
    /\ handed = {}

TelemetryNext ==
    \/ \E responses \in EventCounts, failures \in EventCounts :
          RecordDialogueTelemetry(responses, failures)
    \/ \E io \in IoOutcomes : FlushDialogueTelemetryLog(io)

TelemetrySpec == TelemetryInit /\ [][TelemetryNext]_vars

(* ------------------------- one tick of the plugin ---------------------- *)
(* The telemetry systems of the Update chain, in the order of the chain. *)
TelemetryChain_FlushFirst ==
    <<"flush_dialogue_telemetry_log", "record_dialogue_telemetry">>

TelemetryChain ==
    <<"record_dialogue_telemetry", "flush_dialogue_telemetry_log">>

(* One system of the chain run on w = [messages, telemetry, pending, file,  *)
(* pushed, handed]: record_dialogue_telemetry reads every unread message,   *)
(* flush_dialogue_telemetry_log flushes what is pending (a write that fails *)
(* at a record the flush does not have does not fail).                      *)
RunSystem(name, w, io) ==
    IF name = "record_dialogue_telemetry"
    THEN [w EXCEPT !.messages = <<>>,
                   !.telemetry = PushAllTelemetry(@, w.messages),
                   !.pending = PushAllLog(@, w.messages),
                   !.pushed = @ \o w.messages]
    ELSE LET met == IF io.step = "write" /\ io.at > Len(w.pending)
                    THEN [step |-> "ok", at |-> 0] ELSE io
             log == Flush([pending |-> w.pending, file |-> w.file], met)
         IN [w EXCEPT !.pending = log.pending, !.file = log.file,
                      !.handed = @ \cup Range(w.pending)]

(* .chain(): the systems run one after the other, each on what the one      *)
(* before it left.                                                          *)
RECURSIVE RunChain(_, _, _)
RunChain(chain, w, io) ==
    IF chain = <<>> THEN w
    ELSE RunChain(Tail(chain), RunSystem(Head(chain), w, io), io)

(* The messages the completions of a tick emit: a response for every        *)
(* request accepted, a failure notification for every request dropped; the  *)
(* reader of the responses is read before the reader of the failures.       *)
RECURSIVE EmittedBy(_, _, _, _)
EmittedBy(ready, kind, was, now) ==
    IF ready = <<>> THEN <<>>
    ELSE (IF kind = "Response"
             /\ Head(ready).id \in now.accepted \ was.accepted
          THEN <<TelemetryRecord(Head(ready).id, "Response")>>
          ELSE IF kind = "Failure"
                  /\ CountOf(now.dropCount, Head(ready).id)
                        > CountOf(was.dropCount, Head(ready).id)
          THEN <<TelemetryRecord(Head(ready).id, "Failure")>>
          ELSE <<>>)
         \o EmittedBy(Tail(ready), kind, was, now)

(* One tick of the Update chain: the queue's timers are advanced, the ready *)
(* requests are dispatched and their completions recorded, the messages     *)
(* emitted are recorded as telemetry and the log is flushed.                *)
UpdateTick(delta_seconds, outcomes, io) ==
    \E taken \in {TickThenTake(delta_seconds)} :
       /\ Len(outcomes) = Len(taken.ready)
       /\ \A i \in 1..Len(outcomes) :
             IsUncounted(outcomes[i])
                => CountOf(uncounted, taken.ready[i].id) < MaxUncounted
       /\ ApplyRun(delta_seconds, taken, outcomes)
       /\ LET was == [accepted |-> accepted, dropCount |-> dropCount]
              now == [accepted |-> accepted', dropCount |-> dropCount']
              messages == EmittedBy(taken.ready, "Response", was, now)
                          \o EmittedBy(taken.ready, "Failure", was, now)
          IN /\ Len(pushed) + Len(messages) <= MaxPushes
             /\ io.step = "write" => io.at <= Len(log_pending) + Len(messages)
             /\ \E w \in {RunChain(TelemetryChain,
                                   [messages |-> messages,
                                    telemetry |-> telemetry,
                                    pending |-> log_pending,
                                    file |-> log_file, pushed |-> pushed,
                                    handed |-> handed], io)} :
                   /\ telemetry' = w.telemetry
                   /\ log_pending' = w.pending
                   /\ log_file' = w.file
                   /\ pushed' = w.pushed
                   /\ handed' = w.handed
             /\ emitted' = emitted \o messages
       /\ UNCHANGED <<brokerVars, requested_capacity>>

(* The configurations and capacities the ticks are run with, and how the   *)
(* I/O of a tick's flush can go.                                            *)
FrameConfigs ==
    [global_cooldown_secs : {1}, per_npc_cooldown_secs : {2},
     max_retries : MaxRetriesChoices,
     max_dispatches_per_tick : MaxDispatchesChoices]
FrameCapacities == {2}
FrameOutcomes ==
    {o \in SubmissionOutcomes : o.kind \in {"Accepted", "Timeout", "Cancelled"}}
FrameIoOutcomes ==
    {io \in IoOutcomes : io.step \in {"ok", "open"} \/ io.at = 1}

FrameInit ==
    /\ pending = <<>>
    /\ delayed = <<>>
    /\ npc_cooldowns = <<>>
    /\ global_cooldown = CooldownReady
    /\ config \in FrameConfigs
    /\ metrics = DefaultMetrics
    /\ next_id = InitialNextId
    /\ dispatched = {}
    /\ issued = <<>>
    /\ accepted = {}
    /\ dropCount = <<>>
    /\ exhausted = {}
    /\ dispatchCount = <<>>
    /\ uncounted = <<>>
    /\ deferredIds = {}
    /\ sinceGlobal = Trigger(config.global_cooldown_secs)
    /\ sinceNpc = [n \in NpcIds |-> Trigger(config.per_npc_cooldown_secs)]
    /\ retryClock = <<>>
    /\ BrokerIdle
    /\ requested_capacity \in FrameCapacities
    /\ telemetry = NewTelemetry(requested_capacity)
    /\ log_pending = <<>>
    /\ log_file = <<>>
    /\ pushed = <<>>
    /\ emitted = <<>>
    /\ handed = {}

FrameNext ==
    \/ \E provider \in Providers, npc \in Speakers, prompt \in Prompts :
          Enqueue(provider, npc, prompt)
    \/ \E delta_seconds \in Deltas, io \in FrameIoOutcomes :
          \E outcomes \in [1..Len(TickThenTake(delta_seconds).ready)
                               -> FrameOutcomes] :
             UpdateTick(delta_seconds, outcomes, io)

FrameSpec == FrameInit /\ [][FrameNext]_vars

(* ------------------------- views used by the claims -------------------- *)
QueuedRequests == Range(pending) \cup {delayed[i].request : i \in 1..Len(delayed)}

LiveRequests == QueuedRequests \cup dispatched

InQueueCount(id) ==
    Cardinality({i \in 1..Len(pending) : pending[i].id = id})
    + Cardinality({i \in 1..Len(delayed) : delayed[i].request.id = id})

InFlightCount(id) == Cardinality({r \in dispatched : r.id = id})

ResolvedCount(id) == (IF id \in accepted THEN 1 ELSE 0) + CountOf(dropCount, id)

SpeakerCooldown(cooldowns, npc) ==
    IF npc \in DOMAIN cooldowns THEN cooldowns[npc] ELSE 0

NewlyDispatched == dispatched' \ dispatched

RECURSIVE SumCounts(_, _)
SumCounts(f, S) ==
    IF S = {} THEN 0
    ELSE LET x == CHOOSE y \in S : TRUE IN f[x] + SumCounts(f, S \ {x})

TotalDispatches == SumCounts(dispatchCount, DOMAIN dispatchCount)

(* Requests submitted, by what the broker is given to inspect. *)
IsBlank(text) == \A i \in 1..Len(text) : text[i] \in Whitespace

SentinelIds ==
    {id \in DOMAIN request_meta : request_meta[id].prompt = ManualRetryPrompt}

BlankIds == {id \in DOMAIN request_meta : IsBlank(request_meta[id].prompt)}

TradeIdsWithoutTradeEvent ==
    {id \in DOMAIN request_meta :
        /\ request_meta[id].topic_hint = "Trade"
        /\ ~IsBlank(request_meta[id].prompt)
        /\ ~EqIgnoreAsciiCase(request_meta[id].prompt, ManualRetryPrompt)
        /\ \A i \in 1..Len(request_meta[id].context.events) :
              request_meta[id].context.events[i] # "Trade"}

HasEventOfKind(id, kind) ==
    \E i \in 1..Len(request_meta[id].context.events) :
        request_meta[id].context.events[i] = kind

(* The requests validation turns down: an empty prompt, the manual-retry    *)
(* prompt, or a topic whose context is missing.                             *)
FailsValidation(id) ==
    \/ IsBlank(request_meta[id].prompt)
    \/ EqIgnoreAsciiCase(request_meta[id].prompt, ManualRetryPrompt)
    \/ /\ request_meta[id].topic_hint = "Trade"
       /\ \/ request_meta[id].context.summary = <<>>
          \/ ~HasEventOfKind(id, "Trade")
    \/ /\ request_meta[id].topic_hint = "Schedule"
       /\ ~HasEventOfKind(id, "ScheduleUpdate")

(* Trade-topic requests whose prompt gets them as far as the topic check. *)
TradeIds ==
    {id \in DOMAIN request_meta :
        /\ request_meta[id].topic_hint = "Trade"
        /\ ~IsBlank(request_meta[id].prompt)
        /\ ~EqIgnoreAsciiCase(request_meta[id].prompt, ManualRetryPrompt)}

(* Some(text) with text not empty. *)
HasNonEmptySummary(id) ==
    /\ request_meta[id].context.summary # <<>>
    /\ request_meta[id].context.summary[1] # ""

DelayedFor(id, remaining) ==
    /\ \E i \in 1..Len(delayed) :
          delayed[i].request.id = id /\ delayed[i].remaining = remaining
    /\ \A i \in 1..Len(pending) : pending[i].id # id

(* ------------------------------- C1 ------------------------------------ *)
(* C1: from a fresh queue the k-th enqueue returns the id k-1, i.e. the ids *)
(* handed out are 0, 1, 2, ... in order.                                    *)
C1_IdsCountFromZero == \A k \in 1..Len(issued) : issued[k] = k - 1

(* ------------------------------- C2 ------------------------------------ *)
(* C2: over any interleaving of enqueue, tick, dispatch, retry and drop the *)
(* ids returned by enqueue are strictly increasing (none is handed out      *)
(* twice), and only enqueue moves the id counter: it always stands one past *)
(* the last id handed out.                                                  *)
C2_IdsStrictlyIncreasing ==
    /\ \A i, j \in 1..Len(issued) : i < j => issued[i] < issued[j]
    /\ \A i \in 1..Len(issued) : issued[i] < next_id
    /\ next_id = InitialNextId + Len(issued)

(* A retried request is back in pending and a request enqueued after the    *)
(* retry stands behind it.                                                  *)
C2_Witness ==
    \E i, j \in 1..Len(pending) :
        /\ i < j
        /\ pending[i].retries >= 1
        /\ pending[j].retries = 0
        /\ CountOf(dispatchCount, pending[j].id) = 0
        /\ pending[i].npc_id = NoNpc
        /\ pending[j].npc_id = NoNpc
        /\ pending[i].id < pending[j].id

(* ------------------------------- C3 ------------------------------------ *)
(* C3: every id handed out is in exactly one place: once in the queue       *)
(* (pending or delayed), or once in the dispatched set, or resolved         *)
(* (accepted or dropped); nothing else is queued or dispatched.             *)
C3_ExactlyOnePlace ==
    /\ \A id \in Range(issued) :
          InQueueCount(id) + InFlightCount(id) + ResolvedCount(id) = 1
    /\ \A r \in LiveRequests : r.id \in Range(issued)

(* One request waits out a retry delay while another, already retried, is   *)
(* in flight.                                                               *)
C3_Witness ==
    /\ delayed # <<>>
    /\ \E r \in dispatched : r.retries >= 1 /\ CountOf(dispatchCount, r.id) >= 2

(* ------------------------------- C4 ------------------------------------ *)
(* C4: no queued request has more than max_retries attempts behind it, and  *)
(* a request that failed on every attempt and exhausted its budget has      *)
(* exactly one drop recorded, was dispatched exactly max_retries + 1 times  *)
(* and is in no queue structure.                                            *)
C4_DroppedAfterMaxRetriesPlusOne ==
    /\ \A r \in QueuedRequests : r.retries <= config.max_retries
    /\ \A id \in exhausted :
          id \notin deferredIds =>
             /\ CountOf(dropCount, id) = 1
             /\ CountOf(dispatchCount, id) = config.max_retries + 1
             /\ InQueueCount(id) = 0
             /\ InFlightCount(id) = 0

(* ------------------------------- C5 ------------------------------------ *)
(* C5: the retries counter of every queued or in-flight request is between  *)
(* 0 and max_retries + 1, a request enters the queue with 0 retries, and    *)
(* the counter of a request never decreases.                                *)
C5_RetriesBounded ==
    \A r \in LiveRequests : 0 <= r.retries /\ r.retries <= config.max_retries + 1

C5_RetriesStep ==
    /\ \A r \in LiveRequests, r2 \in LiveRequests' :
          r.id = r2.id => r2.retries >= r.retries
    /\ \A r2 \in LiveRequests' :
          r2.id \notin Range(issued) => r2.retries = 0

C5_RetriesBoundedAndMonotone == []C5_RetriesBounded /\ [][C5_RetriesStep]_vars

(* A request is in flight for its last permitted attempt. *)
C5_Witness ==
    \E r \in dispatched : r.retries = config.max_retries /\ r.retries >= 1

(* ------------------------------- C6 ------------------------------------ *)
(* C6: with non-negative tick deltas no cooldown is ever negative: not the  *)
(* global one, not a speaker's, not a delayed retry entry's.                *)
C6_NoNegativeCooldown ==
    /\ global_cooldown >= 0
    /\ \A n \in DOMAIN npc_cooldowns : npc_cooldowns[n] >= 0
    /\ \A i \in 1..Len(delayed) : delayed[i].remaining >= 0

(* One dispatch triggered the global cooldown (1 s) and a speaker's (2 s);  *)
(* the ticks that ran the speaker's cooldown out overshot the global one.   *)
C6_Witness ==
    /\ config.global_cooldown_secs = 1
    /\ config.per_npc_cooldown_secs = 2
    /\ TotalDispatches = 1
    /\ global_cooldown = 0
    /\ \E n \in DOMAIN npc_cooldowns : sinceNpc[n] = 2 /\ npc_cooldowns[n] = 0
    /\ delayed # <<>>

(* ------------------------------- C7 ------------------------------------ *)
(* C7: once a speaker's cooldown has been triggered with a positive         *)
(* per-speaker constant, requests of that speaker cannot be dispatched      *)
(* until the tick deltas since then add up to the constant, and none is     *)
(* dispatched in between.                                                   *)
C7_SpeakerBlocked ==
    \A n \in NpcIds :
        sinceNpc[n] < Trigger(config.per_npc_cooldown_secs)
           => /\ n \in DOMAIN npc_cooldowns
              /\ ~IsReady(npc_cooldowns[n])
              /\ \A r \in Range(pending) :
                    r.npc_id = n => ~CanDispatch(npc_cooldowns, r)

C7_DispatchStep ==
    \A r \in NewlyDispatched :
        r.npc_id # NoNpc =>
           /\ sinceNpc[r.npc_id] >= Trigger(config.per_npc_cooldown_secs)
           /\ config.per_npc_cooldown_secs > 0 =>
                 \A r2 \in NewlyDispatched : r2.npc_id = r.npc_id => r2 = r

C8_BackoffRaisesCooldowns ==
    [][\A request \in dispatched, s \in RetryAfters :
          RecordErrorThrottled(request, s) =>
             /\ global_cooldown' = Max(global_cooldown, s)
             /\ request.npc_id # NoNpc =>
                   SpeakerCooldown(npc_cooldowns', request.npc_id)
                      = Max(SpeakerCooldown(npc_cooldowns, request.npc_id), s)]_vars

(* ------------------------------- C9 ------------------------------------ *)
(* C9: with a global cooldown constant G > 0 a dispatch happens only when   *)
(* at least G of tick time has accumulated since the last dispatch (or none *)
(* came before), one request at a time; while less than G has accumulated  *)
(* the global cooldown is not ready; and a take_ready_limit call with a     *)
(* positive limit, made once G has accumulated while a request whose        *)
(* speaker is ready is pending, dispatches.                                 *)
C9_GlobalNotReady ==
    sinceGlobal < Trigger(config.global_cooldown_secs)
       => ~IsReady(global_cooldown)

C9_TakeDispatches ==
    \A limit \in Limits \ {0} :
        (/\ sinceGlobal >= Trigger(config.global_cooldown_secs)
         /\ \E r \in Range(pending) : CanDispatch(npc_cooldowns, r))
           => Len(TakeReadyLimitResult(limit).ready) >= 1

C9_DispatchStep ==
    (NewlyDispatched # {} /\ config.global_cooldown_secs > 0) =>
       /\ sinceGlobal >= config.global_cooldown_secs
       /\ Cardinality(NewlyDispatched) = 1

C9_GlobalRateLimit ==
    [](C9_GlobalNotReady /\ C9_TakeDispatches) /\ [][C9_DispatchStep]_vars

(* G = 1 s, no per-speaker cooldown: two requests were enqueued, the second *)
(* was dispatched while the first is still in flight, and part of the       *)
(* global cooldown of that second dispatch has not elapsed.                 *)
C9_Witness ==
    /\ config.global_cooldown_secs = 1
    /\ config.per_npc_cooldown_secs = 0
    /\ Cardinality({r.id : r \in dispatched}) = 2
    /\ TotalDispatches = 2
    /\ sinceGlobal = 0

(* ------------------------------- C10 ----------------------------------- *)
(* C10: admission is FIFO: only the head of the queue is ever dispatched,   *)
(* so the requests a step dispatches are a prefix of pending, and none is   *)
(* dispatched while a request ahead of it keeps waiting.                    *)
C10_HeadOnly ==
    [][\A k \in 1..Len(pending) :
          pending[k] \in NewlyDispatched =>
             \A j \in 1..(k - 1) : pending[j] \in NewlyDispatched]_vars

(* ------------------------------- C11 ----------------------------------- *)
(* C11: one run of the scheduler tick moves at most one request from the    *)
(* queue to dispatched, however many requests are ready and whatever the    *)
(* cooldown constants and the per-tick dispatch limit are.                  *)
C11_AtMostOnePerTick == [][TotalDispatches' <= TotalDispatches + 1]_vars

C13_BlankPromptFailsToTheEnd ==
    \A id \in BlankIds :
        LET log == CallsOf(processLog, id)
        IN /\ log.calls <= config.max_retries + 1
           /\ log.calls >= 1 =>
                 /\ log.last.kind = "ProviderFailure"
                 /\ log.last.message = "prompt cannot be empty"
                 /\ log.network_calls = 0
                 /\ id \notin accepted
           /\ (log.calls >= 1 /\ log.calls <= config.max_retries) =>
                 /\ CountOf(dropCount, id) = 0
                 /\ InQueueCount(id) = 1
                 /\ \A r \in QueuedRequests : r.id = id => r.retries = log.calls
           /\ log.calls = config.max_retries + 1 =>
                 /\ CountOf(dropCount, id) = 1
                 /\ id \in exhausted
                 /\ InQueueCount(id) = 0
                 /\ Len(issued) = 1 => (pending = <<>> /\ delayed = <<>>)

(* A live broker was given a whitespace-only prompt of the Trade topic with *)
(* full trade context; the request ran out of retries and the queue is      *)
(* empty.                                                                   *)
C13_Witness ==
    /\ constructedMode = "Live"
    /\ pending = <<>>
    /\ delayed = <<>>
    /\ \E id \in BlankIds \cap exhausted :
          /\ request_meta[id].prompt = <<" ", "\t">>
          /\ request_meta[id].topic_hint = "Trade"
          /\ request_meta[id].context.summary = <<"s">>
          /\ request_meta[id].context.events = <<"ScheduleUpdate", "Trade">>

(* ------------------------------- C14 ----------------------------------- *)
(* C14: for every Trade-topic request with a non-empty, non-sentinel prompt *)
(* and no trade-shaped context event, process returns                       *)
(* ContextMissing(TradeHistory) without a network call.                     *)
C14_TradeHistoryMissing ==
    \A id \in TradeIdsWithoutTradeEvent :
        LET log == CallsOf(processLog, id)
        IN log.calls >= 1 =>
              /\ log.last.kind = "ContextMissing"
              /\ log.last.missing = "TradeHistory"
              /\ log.network_calls = 0

(* C14 as amended: the same for the requests whose context carries a        *)
(* non-empty summary; without a summary the answer is                       *)
(* ContextMissing(InventoryState).                                          *)
C14_TradeHistoryMissingGivenSummary ==
    \A id \in TradeIdsWithoutTradeEvent :
        LET log == CallsOf(processLog, id)
        IN log.calls >= 1 =>
              /\ log.network_calls = 0
              /\ log.last.kind = "ContextMissing"
              /\ HasNonEmptySummary(id)
                    => log.last.missing = "TradeHistory"
              /\ request_meta[id].context.summary = <<>>
                    => log.last.missing = "InventoryState"

(* A live broker processed a Trade request that has a summary and only a    *)
(* schedule update among its events.                                        *)
C14_Witness ==
    /\ constructedMode = "Live"
    /\ \E id \in TradeIdsWithoutTradeEvent :
          /\ request_meta[id].context.summary = <<"s">>
          /\ request_meta[id].context.events = <<"ScheduleUpdate">>
          /\ CallsOf(processLog, id).calls >= 1

(* ------------------------------- C15 ----------------------------------- *)
(* C15: the scheduler tick does not wait for the provider call of a request *)
(* it dispatches: when the step that dispatched a request is over, the      *)
(* request is in flight, its outcome not yet recorded, so that later ticks  *)
(* run while it is in flight.                                               *)
C15_DispatchReturnsBeforeCompletion ==
    [][\A id \in DOMAIN dispatchCount' :
          CountOf(dispatchCount', id) > CountOf(dispatchCount, id)
             => /\ \E r \in dispatched' : r.id = id
                /\ id \notin accepted'
                /\ CountOf(dropCount', id) = CountOf(dropCount, id)
                /\ InQueueCount(id)' = 0]_vars

C17_HoldsMostRecent ==
    LET N == IF requested_capacity = 0 THEN 1 ELSE requested_capacity
        k == Min(N, Len(pushed))
    IN /\ Len(telemetry.records) = k
       /\ telemetry.records = SubSeq(pushed, Len(pushed) - k + 1, Len(pushed))

(* A buffer of capacity 2 has overflowed twice and holds a response and a   *)
(* failure.                                                                 *)
C17_Witness ==
    /\ requested_capacity = 2
    /\ Len(pushed) = 4
    /\ {telemetry.records[i].event : i \in 1..Len(telemetry.records)}
          = {"Response", "Failure"}

(* ------------------------------- C18 ----------------------------------- *)
(* C18: no record handed to the telemetry log is lost, whichever step of a  *)
(* flush failed: every record pushed is in the log file or still pending    *)
(* for a later flush.                                                       *)
C18_NoRecordLost ==
    \A i \in 1..Len(pushed) :
        pushed[i] \in Range(log_pending) \cup Range(log_file)

(* ------------------------------- C19 ----------------------------------- *)
(* C19: the mode chosen when the broker is constructed never changes:       *)
(* after any sequence of process calls, whatever their outcomes, the broker *)
(* is in the mode it was constructed in and provider_kind returns the same  *)
(* value.                                                                   *)
C19_ModeFixed ==
    /\ mode = constructedMode
    /\ ProviderKind(mode) = ProviderKind(constructedMode)

C19_ModeNeverChanges == []C19_ModeFixed /\ [][mode' = mode]_vars

(* A live broker has made two network calls for a request, the last of      *)
(* which failed.                                                            *)
C19_Witness ==
    /\ constructedMode = "Live"
    /\ \E id \in DOMAIN processLog :
          /\ processLog[id].network_calls = 2
          /\ processLog[id].last.kind = "ProviderFailure"

(* ------------------------------- C20 ----------------------------------- *)
(* C20: a request moves from the queue to dispatched only in a state where  *)
(* the global cooldown is zero and the cooldown of its speaker is zero; a   *)
(* speaker without a recorded cooldown counts as zero.                      *)
C20_TakeOnlyWhenReady ==
    \A limit \in Limits :
        \A r \in Range(TakeReadyLimitResult(limit).ready) :
            /\ global_cooldown = 0
            /\ SpeakerCooldown(npc_cooldowns, r.npc_id) = 0

C20_DispatchStep ==
    \A r \in NewlyDispatched :
        /\ global_cooldown = 0
        /\ SpeakerCooldown(npc_cooldowns, r.npc_id) = 0

C20_DispatchOnlyAtZeroCooldowns ==
    []C20_TakeOnlyWhenReady /\ [][C20_DispatchStep]_vars

(* Both cooldown constants are positive; the second dispatch ever made was  *)
(* for a speaker that had no recorded cooldown, while the speaker of the    *)
(* first dispatch is still cooling down.                                    *)
C20_Witness ==
    /\ config.global_cooldown_secs > 0
    /\ config.per_npc_cooldown_secs > 0
    /\ TotalDispatches = 2
    /\ \E r \in dispatched :
          /\ r.npc_id # NoNpc
          /\ CountOf(dispatchCount, r.id) = 1
          /\ sinceNpc[r.npc_id] = 0
          /\ \E n \in DOMAIN npc_cooldowns :
                n # r.npc_id /\ npc_cooldowns[n] > 0

(* ------------------------------- C21 ----------------------------------- *)
(* C21: a RateLimited (throttled) failure counts as an attempt like every   *)
(* other failure: a queued request that was never deferred has as many      *)
(* retries behind it as it was dispatched, and no such request is           *)
(* dispatched more than max_retries + 1 times.                              *)
C21_ThrottledCountsAsAttempt ==
    /\ \A r \in QueuedRequests :
          r.id \notin deferredIds => r.retries = CountOf(dispatchCount, r.id)
    /\ \A id \in DOMAIN dispatchCount :
          id \notin deferredIds => dispatchCount[id] <= config.max_retries + 1

(* ------------------------------- C22 ----------------------------------- *)
(* C22: tick with a negative delta behaves as tick(0): it leaves the global *)
(* cooldown, every speaker's cooldown and every queued entry's remaining    *)
(* cooldown as they are, and so never increases a cooldown.                 *)
C22_NegativeTickIsNoOp ==
    [][\A delta_seconds \in SignedDeltas :
          (delta_seconds < 0 /\ Tick(delta_seconds))
             => UNCHANGED <<global_cooldown, npc_cooldowns, pending, delayed>>]_vars

(* ------------------------------- C23 ----------------------------------- *)
(* C23: a request re-enqueued for retry with a cooldown d > 0 is not        *)
(* dispatched until d seconds of tick time have accumulated since the       *)
(* re-enqueue: until then it waits in delayed with d minus the accumulated  *)
(* time remaining, is neither pending nor dispatched, and it is pending,    *)
(* eligible for dispatch, after the tick at which the accumulated time      *)
(* reaches d.                                                               *)
C23_WaitsWhileClockRuns ==
    /\ \A i \in 1..Len(delayed) :
          LET id == delayed[i].request.id
          IN /\ id \in DOMAIN retryClock
             /\ retryClock[id].since < retryClock[id].delay
             /\ delayed[i].remaining
                   = retryClock[id].delay - retryClock[id].since
    /\ \A id \in DOMAIN retryClock :
          /\ \E i \in 1..Len(delayed) : delayed[i].request.id = id
          /\ \A r \in Range(pending) \cup dispatched : r.id # id

C23_RetryStep ==
    /\ \A r \in NewlyDispatched : r.id \notin DOMAIN retryClock
    /\ \A id \in (DOMAIN retryClock) \ (DOMAIN retryClock') :
          \E r \in Range(pending') : r.id = id

C23_RetryWaitsItsDelay == []C23_WaitsWhileClockRuns /\ [][C23_RetryStep]_vars

(* A request was re-enqueued with a delay of 2 s; one second has            *)
(* accumulated since and it is still delayed, while the global cooldown is  *)
(* over.                                                                    *)
C23_Witness ==
    /\ IsReady(global_cooldown)
    /\ \E id \in DOMAIN retryClock :
          /\ retryClock[id].delay = 2
          /\ retryClock[id].since = 1
          /\ \E i \in 1..Len(delayed) :
                /\ delayed[i].request.id = id
                /\ delayed[i].request.npc_id = NoNpc

(* ------------------------------- C24 ----------------------------------- *)
(* C24: the tick of a run lowers the remaining cooldown of every delayed    *)
(* entry by the same delta, not only the head's: an entry with more than    *)
(* the delta remaining stays delayed with the delta taken off, and an entry *)
(* with no more than the delta remaining is ready (pending, or dispatched   *)
(* by the same run) wherever it stands in the list, also behind entries     *)
(* that keep waiting.                                                       *)
C24_EveryEntryTicked ==
    [][\E d \in Deltas :
          \A i \in 1..Len(delayed) :
              LET entry == delayed[i]
                  id == entry.request.id
                  redispatched ==
                      CountOf(dispatchCount', id) > CountOf(dispatchCount, id)
              IN IF entry.remaining <= d
                 THEN \/ redispatched
                      \/ /\ entry.request \in Range(pending')
                         /\ \A j \in 1..Len(delayed') :
                               delayed'[j].request.id # id
                 ELSE /\ ~redispatched
                      /\ \E j \in 1..Len(delayed') :
                            delayed'[j] =
                               [entry EXCEPT !.remaining = entry.remaining - d]
                      /\ \A r \in Range(pending') : r.id # id]_vars

(* Request 1 was dispatched and re-enqueued before request 2; request 2,    *)
(* re-enqueued with the shorter delay, is pending again while request 1     *)
(* still waits with part of its delay elapsed.                              *)
C24_Witness ==
    /\ CountOf(dispatchCount, 1) = 1
    /\ CountOf(dispatchCount, 2) = 1
    /\ Len(delayed) = 1
    /\ delayed[1].request.id = 1
    /\ delayed[1].remaining = 1
    /\ 1 \in DOMAIN retryClock
    /\ retryClock[1].since = 1
    /\ \E r \in Range(pending) : r.id = 2 /\ r.retries = 1

(* ------------------------------- C25 ----------------------------------- *)
(* C25: a request that is re-enqueued after a failure is the request that   *)
(* was dispatched: the entry in the queue has the same id, provider,        *)
(* speaker and prompt as before the step; only retries, which never         *)
(* decreases, and the remaining cooldown differ.                            *)
C25_ReenqueuedUnchanged ==
    [][\A r \in QueuedRequests, r2 \in QueuedRequests' :
          r2.id = r.id =>
             /\ [r2 EXCEPT !.retries = r.retries] = r
             /\ r2.retries >= r.retries]_vars

(* Request 2, of speaker 2, has been dispatched twice; after the second     *)
(* failure it waits in delayed with one retry counted.                      *)
C25_Witness ==
    \E i \in 1..Len(delayed) :
        /\ delayed[i].request.id = 2
        /\ delayed[i].request.npc_id = 2
        /\ delayed[i].request.prompt = "hello"
        /\ delayed[i].request.retries = 1
        /\ CountOf(dispatchCount, 2) = 2

(* ------------------------------- C26 ----------------------------------- *)
(* C26: every request is resolved at most once: it is accepted or dropped,  *)
(* never both and never twice; once resolved it is in no queue structure    *)
(* and not in flight, and no later step dispatches or resolves it again.    *)
C26_ResolvedOnce ==
    \A id \in Range(issued) :
        /\ ResolvedCount(id) <= 1
        /\ ResolvedCount(id) = 1 =>
              InQueueCount(id) = 0 /\ InFlightCount(id) = 0

C26_ResolvedStep ==
    \A id \in Range(issued) :
        ResolvedCount(id) = 1 =>
           /\ CountOf(dispatchCount', id) = CountOf(dispatchCount, id)
           /\ CountOf(dropCount', id) = CountOf(dropCount, id)
           /\ (id \in accepted') = (id \in accepted)

C26_ResolvedAtMostOnce == []C26_ResolvedOnce /\ [][C26_ResolvedStep]_vars

(* One request was accepted on its second attempt, the other was dropped    *)
(* after running out of retries; runs went on after the first resolution.   *)
C26_Witness ==
    \E a \in accepted, b \in exhausted :
        /\ CountOf(dispatchCount, a) = 2
        /\ CountOf(dropCount, b) = 1
        /\ CountOf(dispatchCount, b) = config.max_retries + 1
        /\ pending = <<>>
        /\ delayed = <<>>

(* ------------------------------- C28 ----------------------------------- *)
(* C28: when validation of a request fails (empty prompt, sentinel prompt,  *)
(* missing topic context) process returns the error without a network       *)
(* call, in live as in fallback mode; in fallback mode process makes no     *)
(* network call at all and returns a response exactly when validation       *)
(* passed.                                                                  *)
C28_ValidationBeforeNetwork ==
    \A id \in DOMAIN processLog :
        /\ FailsValidation(id) =>
              /\ processLog[id].network_calls = 0
              /\ processLog[id].last.kind # "Ok"
        /\ constructedMode = "Fallback" =>
              /\ processLog[id].network_calls = 0
              /\ (processLog[id].last.kind = "Ok") = ~FailsValidation(id)

(* A live broker has twice processed a Schedule request that has a prompt   *)
(* and a summary but no schedule update among its events.                   *)
C28_Witness ==
    /\ constructedMode = "Live"
    /\ \E id \in DOMAIN processLog :
          /\ request_meta[id].topic_hint = "Schedule"
          /\ request_meta[id].prompt = <<"h", "i">>
          /\ request_meta[id].context = [summary |-> <<"s">>, events |-> <<"Trade">>]
          /\ processLog[id].calls = 2
          /\ processLog[id].last.kind = "ContextMissing"

(* ------------------------------- C29 ----------------------------------- *)
(* C29: a Trade-topic request with a non-empty, non-sentinel prompt passes  *)
(* validation if and only if its context has a non-empty summary and at     *)
(* least one trade event; with the summary absent or empty it is rejected   *)
(* with ContextMissing(InventoryState), with a non-empty summary but no     *)
(* trade event with ContextMissing(TradeHistory).                           *)
C29_TradeNeedsSummaryAndEvent ==
    \A id \in TradeIds \cap DOMAIN processLog :
        LET last == processLog[id].last
            passed == last.kind # "ContextMissing"
        IN /\ passed = (HasNonEmptySummary(id) /\ HasEventOfKind(id, "Trade"))
           /\ ~HasNonEmptySummary(id) =>
                 last.kind = "ContextMissing" /\ last.missing = "InventoryState"
           /\ (HasNonEmptySummary(id) /\ ~HasEventOfKind(id, "Trade")) =>
                 last.kind = "ContextMissing" /\ last.missing = "TradeHistory"

(* ------------------------------- C30 ----------------------------------- *)
(* C30: for every valid request the message of the live mode and the text   *)
(* of the fallback mode hold their lines in one fixed order: speaker line,  *)
(* target line (the fallback label when there is no target), topic label    *)
(* line, prompt line, summary line exactly when the summary is not empty,   *)
(* then one line per context event in the order of the events; the live     *)
(* mode alone ends with the closing instruction line.  The line that stands *)
(* in for missing context is not counted.                                   *)
ClaimedOrder(m, request) ==
    <<[kind |-> "Speaker", event |-> 0], [kind |-> "Target", event |-> 0],
      [kind |-> "Topic", event |-> 0], [kind |-> "Prompt", event |-> 0]>>
    \o (IF request.context.summary \notin {<<>>, <<<<>>>>}
        THEN <<[kind |-> "Summary", event |-> 0]>> ELSE <<>>)
    \o [i \in 1..Len(request.context.events) |-> [kind |-> "Event", event |-> i]]
    \o (IF m = "Live" THEN <<[kind |-> "Instruction", event |-> 0]>> ELSE <<>>)

OrderOf(lines) ==
    LET counted == SelectSeq(lines, LAMBDA l : l.kind # "NoContext")
    IN [i \in 1..Len(counted) |->
           [kind |-> counted[i].kind, event |-> counted[i].event]]

C30_SameFixedOrder ==
    assembled # NoAssembly =>
        /\ OrderOf(assembled.lines)
              = ClaimedOrder(assembled.mode, assembled.request[1])
        /\ \A i \in 1..Len(assembled.lines) :
              (assembled.lines[i].kind = "Target"
               /\ assembled.request[1].target = <<>>)
                 => assembled.lines[i].text = FallbackTargetLabel

(* ------------------------------- C31 ----------------------------------- *)
(* C31: the live client turns every provider reply into exactly one         *)
(* outcome: status 429 gives RateLimited with the value of the Retry-After  *)
(* header when it is there and parseable and with the fixed default         *)
(* otherwise; any other non-success status gives ProviderFailure; a success *)
(* status without a non-empty completion text gives ProviderFailure; every  *)
(* other success gives a response whose content is the completion text      *)
(* without its surrounding whitespace.                                      *)
(* The header texts that are numbers, with the number each one writes. *)
ParseableHeaders ==
    (<<"0">> :> 0) @@ (<<"2">> :> 2) @@ (<<"1", "0">> :> 10)
    @@ (<<"+", "2">> :> 2) @@ (<<"-", "1">> :> 0 - 1)

(* The completion text: the content of the first choice that has one. *)
CompletionText(response) ==
    IF ~response.completion_body THEN <<>>
    ELSE LET with == SelectSeq(response.choices, LAMBDA c : c # <<>>)
         IN IF with = <<>> THEN <<>> ELSE with[1][1]

Stripped(text) ==
    LET inside == {i \in 1..Len(text) : text[i] \notin {" ", "\t"}}
    IN IF inside = {} THEN <<>>
       ELSE LET first == CHOOSE i \in inside : \A j \in inside : i <= j
                last == CHOOSE i \in inside : \A j \in inside : i >= j
            IN SubSeq(text, first, last)

C31_ReplyClassified ==
    exchange # NoExchange =>
        LET response == exchange.response[1]
            result == exchange.result[1]
            success == response.status \in 200..299
        IN /\ result.kind \in {"Ok", "RateLimited", "ProviderFailure"}
           /\ response.status = 429 =>
                 /\ result.kind = "RateLimited"
                 /\ result.retry_after =
                       IF response.retry_after # <<>>
                          /\ response.retry_after[1] \in DOMAIN ParseableHeaders
                       THEN ParseableHeaders[response.retry_after[1]]
                       ELSE DefaultRateLimitBackoff
           /\ (response.status # 429 /\ ~success) =>
                 result.kind = "ProviderFailure"
           /\ (success /\ Stripped(CompletionText(response)) = <<>>) =>
                 result.kind = "ProviderFailure"
           /\ (success /\ Stripped(CompletionText(response)) # <<>>) =>
                 /\ result.kind = "Ok"
                 /\ result.content = Stripped(CompletionText(response))

C31_Witness ==
    /\ exchange # NoExchange
    /\ exchange.response[1].status = 200
    /\ exchange.response[1].choices = <<<<<<" ", "o", "k", " ">>>>>>
    /\ exchange.result[1].kind = "Ok"
    /\ exchange.result[1].content = <<"o", "k">>

(* ------------------------------- C32 ----------------------------------- *)
(* C32: within one tick the systems run in the fixed order advance timers,  *)
(* dispatch, poll completions, record telemetry, flush the log.  Hence a    *)
(* response or failure emitted in a tick has been pushed to the in-memory   *)
(* telemetry and handed to the flush of the log when that tick is over, and *)
(* the timers are advanced before the tick decides what to dispatch: a head *)
(* request that the global cooldown held back, and whose cooldowns run out  *)
(* with the time of this tick, is dispatched in this tick.                  *)
C32_RecordedAndHanded ==
    /\ pushed = emitted
    /\ Range(emitted) \subseteq handed
    /\ \A i \in 1..Len(emitted) :
          emitted[i] \in Range(log_pending) =>
             ~(emitted[i] \in Range(log_file))

C32_TimersFirst ==
    \A delta_seconds \in Deltas :
        (/\ pending # <<>>
         /\ global_cooldown > 0
         /\ CooldownTick(global_cooldown, delta_seconds) = 0
         /\ CooldownTick(SpeakerCooldown(npc_cooldowns, Head(pending).npc_id),
                         delta_seconds) = 0
         /\ TickDelayed(delayed, delta_seconds, pending, <<>>).pending = pending
         /\ \E outcomes \in [1..Len(TickThenTake(delta_seconds).ready)
                                 -> FrameOutcomes], io \in FrameIoOutcomes :
               UpdateTick(delta_seconds, outcomes, io))
        => CountOf(dispatchCount', Head(pending).id)
              = CountOf(dispatchCount, Head(pending).id) + 1

C32_FixedOrder == []C32_RecordedAndHanded /\ [][C32_TimersFirst]_vars

(* With a global cooldown of 1 second a response and a failure have been   *)
(* emitted; the failure is in the telemetry and was handed to a flush that  *)
(* could not open the file, so it is still pending.                         *)
C32_Witness ==
    /\ \E i \in 1..Len(emitted) :
          /\ emitted[i].event = "Failure"
          /\ emitted[i] \in Range(telemetry.records)
          /\ emitted[i] \in handed
          /\ emitted[i] \in Range(log_pending)
    /\ \E i \in 1..Len(emitted) : emitted[i].event = "Response"
    /\ config.global_cooldown_secs = 1

(* ------------------------------- C33 ----------------------------------- *)
(* C33: a flush that fails creating the parent directory or opening the log *)
(* file returns an error and leaves the pending records as they are (same   *)
(* records, same order); the next flush that succeeds writes all of them,   *)
(* one line per record, in push order, and leaves nothing pending.  A flush *)
(* with nothing pending succeeds without touching the file system.          *)
C33_FailedFlushKeepsPending ==
    LET log == [pending |-> log_pending, file |-> log_file]
        n == Len(log_pending)
    IN /\ log_pending = SubSeq(pushed, Len(pushed) - n + 1, Len(pushed))
       /\ \A io \in IoOutcomes :
             (io.step \in {"create_dir_all", "open"} /\ n > 0) =>
                /\ ~Flush(log, io).ok
                /\ Flush(log, io).pending = log_pending
                /\ Flush(log, io).file = log_file
                /\ LET later == Flush([pending |-> Flush(log, io).pending,
                                       file |-> Flush(log, io).file],
                                      [step |-> "ok", at |-> 0])
                   IN /\ later.ok
                      /\ later.pending = <<>>
                      /\ later.file = log_file \o log_pending
                      /\ Len(later.file) = Len(log_file) + n
       /\ \A io \in IoOutcomes :
             n = 0 => /\ Flush(log, io).ok
                      /\ Flush(log, io).file = log_file
                      /\ Flush(log, io).pending = <<>>

(* Two records are pending, the first of them after a flush that failed     *)
(* before it wrote anything; a record flushed earlier is in the file.       *)
C33_Witness ==
    /\ Len(log_pending) = 2
    /\ log_pending[1] \in handed
    /\ log_pending[2] \notin handed
    /\ Len(log_file) = 1

(* ------------------------------- C34 ----------------------------------- *)
(* C34: requests of one speaker are dispatched in the order they were       *)
(* enqueued: no request is dispatched while an earlier-enqueued request of  *)
(* the same speaker is still pending, neither of them having been           *)
(* dispatched before, whatever else is in the queue.                        *)
C34_SameSpeakerInOrder ==
    [][\A r \in NewlyDispatched :
          (r.npc_id # NoNpc /\ CountOf(dispatchCount, r.id) = 0) =>
             \A e \in Range(pending) :
                (/\ e.npc_id = r.npc_id
                 /\ e.id < r.id
                 /\ CountOf(dispatchCount, e.id) = 0)
                => e \in NewlyDispatched]_vars

(* ------------------------------- C35 ----------------------------------- *)
(* C35: the queue neither loses nor duplicates a request: after any         *)
(* sequence of enqueue calls and whole run_dialogue_queue ticks,            *)
(* metrics.enqueued = metrics.accepted + metrics.dropped + queue_depth(),   *)
(* where queue_depth() is the number of pending plus delayed entries.       *)
QueueDepth == Len(pending) + Len(delayed)

C35_Conservation ==
    metrics.enqueued = metrics.accepted + metrics.dropped + QueueDepth

(* Of two requests one was dropped after a counted retry and the other is   *)
(* waiting out a retry delay.                                               *)
C35_Witness ==
    /\ metrics.enqueued = 2
    /\ metrics.dropped = 1
    /\ metrics.retries_scheduled >= 2
    /\ Len(delayed) = 1
    /\ pending = <<>>

(* ------------------------------- C36 ----------------------------------- *)
(* C36: no starvation: if from some point on nothing is enqueued, ticks     *)
(* with positive elapsed time keep occurring and every request dispatched   *)
(* is accepted, then every request that is pending or waiting out a retry   *)
(* delay is eventually dispatched and the queue ends up empty.              *)
C36_NoStarvation ==
    (<>[][AcceptingTick]_vars) =>
        /\ <>[](pending = <<>> /\ delayed = <<>>)
        /\ \A id \in 1..MaxEnqueue :
              (InQueueCount(id) >= 1) ~> (InQueueCount(id) = 0)

(* C36 as amended: the same for the configurations whose                    *)
(* max_dispatches_per_tick is at least 1.                                   *)
C36_NoStarvationWhenDispatching ==
    (config.max_dispatches_per_tick >= 1 /\ <>[][AcceptingTick]_vars) =>
        /\ <>[](pending = <<>> /\ delayed = <<>>)
        /\ \A id \in 1..MaxEnqueue :
              (InQueueCount(id) >= 1) ~> (InQueueCount(id) = 0)

(* Two requests of one speaker have been accepted, one of them after a      *)
(* retry it had to wait for, and the queue is empty.                        *)
C36_Witness ==
    /\ config.max_dispatches_per_tick >= 1
    /\ metrics.accepted = 2
    /\ metrics.retries_scheduled >= 1
    /\ pending = <<>>
    /\ delayed = <<>>
    /\ \E n \in DOMAIN npc_cooldowns : npc_cooldowns[n] > 0

(* ------------------------------- C37 ----------------------------------- *)
(* C37: a take_ready_limit call that returns no request (the limit is 0,    *)
(* the global cooldown is active, or the speaker of every pending request   *)
(* is on cooldown) leaves the queue as it was: the same pending requests in *)
(* the same order, the same delayed entries, cooldowns and metrics.         *)
C37_EmptyTakeResult ==
    \A limit \in Limits :
        LET q == TakeReadyLimitResult(limit)
        IN /\ (\/ limit = 0
                \/ ~IsReady(global_cooldown)
                \/ \A r \in Range(pending) : ~CanDispatch(npc_cooldowns, r))
                  => q.ready = <<>>
           /\ q.ready = <<>>
                  => /\ q.pending = pending
                     /\ q.npc_cooldowns = npc_cooldowns
                     /\ q.global_cooldown = global_cooldown

C37_EmptyTakeStep ==
    \A limit \in Limits :
        (TakeReadyLimit(limit) /\ TakeReadyLimitResult(limit).ready = <<>>)
           => UNCHANGED <<pending, delayed, npc_cooldowns, global_cooldown,
                          metrics>>

C37_EmptyTakeChangesNothing ==
    []C37_EmptyTakeResult /\ [][C37_EmptyTakeStep]_vars

(* The global cooldown is ready and two requests are pending, both of a     *)
(* speaker on cooldown: the scan pops and pushes back each of them.         *)
C37_Witness ==
    /\ IsReady(global_cooldown)
    /\ Len(pending) = 2
    /\ pending[1].id # pending[2].id
    /\ \A r \in Range(pending) : ~CanDispatch(npc_cooldowns, r)

(* ------------------- the economy's dialogue requests -------------------- *)
(* economy/systems/dialogue.rs. An event of a context is modelled by its    *)
(* kind, which is all validation looks at; the TradeCompletedEvent that     *)
(* send_trade_and_dialogue writes first is a message to other systems and   *)
(* no part of the dialogue state.                                           *)
TRADE_PROMPT_VERB ==
    <<"d", "i", "s", "c", "u", "s", "s", "e", "s", " ", "e", "x", "c", "h",
      "a", "n", "g", "i", "n", "g", " ", "a">>
SCHEDULE_PROMPT_ACTION ==
    <<"r", "e", "v", "i", "e", "w", "s", " ", "t", "h", "e", " ", "d", "a",
      "y", "'", "s", " ", "s", "c", "h", "e", "d", "u", "l", "e">>
SCHEDULE_SUMMARY_PREFIX == "Daily plan:"
SENTENCE_SUFFIX == <<".">>

TradeGoods == {"Grain", "Flour", "Tools"}
TradeReasons == {"Production", "Processing", "Exchange"}

(* TradeGood::label *)
TradeGoodLabel(good) ==
    CASE good = "Grain" ->
            <<"g", "r", "a", "i", "n", " ", "c", "r", "a", "t", "e">>
      [] good = "Flour" ->
            <<"f", "l", "o", "u", "r", " ", "c", "r", "a", "t", "e">>
      [] good = "Tools" ->
            <<"t", "o", "o", "l", " ", "c", "r", "a", "t", "e">>

(* DialogueContext::with_events: the events and no summary. *)
WithEvents(events) == [summary |-> <<>>, events |-> events]

(* build_trade_prompt *)
BuildTradePrompt(speaker, good_label) ==
    NpcIdToString(speaker) \o <<" ">> \o TRADE_PROMPT_VERB \o <<" ">>
        \o good_label \o SENTENCE_SUFFIX

EconomyDays == {1, 2}
ScheduleDescriptionTexts == {"", "d"}
TradeDialogueInputs ==
    [day : EconomyDays, from : Speakers, to : Speakers, good : TradeGoods,
     quantity : {1}, reason : TradeReasons]

(* queue_schedule_brief *)
QueueScheduleBrief(day, speaker, description) ==
    LET context ==
            [WithEvents(<<"ScheduleUpdate">>) EXCEPT
                !.summary = <<SCHEDULE_SUMMARY_PREFIX \o " Day "
                                 \o ToString(day)>>]
        prompt == NpcIdToString(speaker) \o <<" ">> \o SCHEDULE_PROMPT_ACTION
                     \o SENTENCE_SUFFIX
    IN SubmitRequest(speaker, prompt, "Schedule", context)

(* send_trade_and_dialogue: a dialogue is queued only for a trade with both *)
(* parties known.                                                           *)
SendTradeAndDialogue(input) ==
    IF input.from # NoNpc /\ input.to # NoNpc
    THEN LET speaker == input.from
             context == WithEvents(<<"Trade">>)
             prompt == BuildTradePrompt(speaker, TradeGoodLabel(input.good))
         IN SubmitRequest(speaker, prompt, "Trade", context)
    ELSE UNCHANGED vars

EconomyConfig ==
    [global_cooldown_secs |-> 1, per_npc_cooldown_secs |-> 2,
     max_retries |-> 1, max_dispatches_per_tick |-> 2]
EconomyReplies ==
    {[status |-> "transport_error", retry_after |-> NoHeader,
      completion |-> <<>>],
     [status |-> "200", retry_after |-> NoHeader, completion |-> <<"o", "k">>]}

EconomyInit == BrokerInit /\ config = EconomyConfig

EconomyNext ==
    \/ \E input \in TradeDialogueInputs :
          Len(issued) < MaxEconomyRequests /\ SendTradeAndDialogue(input)
    \/ \E day \in EconomyDays, speaker \in NpcIds,
          description \in ScheduleDescriptionTexts :
          Len(issued) < MaxEconomyRequests
              /\ QueueScheduleBrief(day, speaker, description)
    \/ \E delta_seconds \in Deltas :
          \E replies \in [1..Len(TickThenTake(delta_seconds).ready)
                              -> EconomyReplies] :
             RunBrokerTick(delta_seconds, replies)

EconomySpec == EconomyInit /\ [][EconomyNext]_vars

(* C38: no request the economy enqueues (the trade dialogue of              *)
(* send_trade_and_dialogue, the schedule brief of queue_schedule_brief) is  *)
(* ever turned down by process with ContextMissing: each satisfies the      *)
(* broker's validation of its topic.                                        *)
C38_EconomyRequestsPassValidation ==
    \A id \in DOMAIN processLog : processLog[id].last.kind # "ContextMissing"

(* ------------------------------- C39 ----------------------------------- *)
(* C39: no telemetry record is appended to the log file more than once:     *)
(* over any sequence of pushes and flushes, flushes that fail at any step   *)
(* included, the file holds each pushed record at most once, and a record   *)
(* that is in the file is no longer pending, so that no later flush writes  *)
(* it again.                                                                *)
C39_WrittenAtMostOnce ==
    /\ \A i, j \in 1..Len(log_file) :
          log_file[i] = log_file[j] => i = j
    /\ \A i \in 1..Len(log_pending) : log_pending[i] \notin Range(log_file)

(* The file holds the first and the third record pushed: the flush of the   *)
(* first two failed writing the second, which is neither in the file nor    *)
(* pending, and a later flush wrote the third.                              *)
C39_Witness ==
    /\ Len(pushed) >= 3
    /\ log_file = <<pushed[1], pushed[3]>>
    /\ pushed[2] \in handed
    /\ pushed[2] \notin Range(log_pending)

=============================================================================
